---- MODULE Spec2Model ----
\* VoiceflowMobile: the recording store and settings map (StorageService), the
\* App shell's transcript handlers with the history screen's delete, the
\* AudioRecorder and AudioPlayer components, the remote enhanceText and
\* generateTitle, each as a state machine translated from the TypeScript source.
EXTENDS Integers, Sequences, FiniteSets, TLC

VARIABLES
  store,      \* AsyncStorage entry RECORDINGS_KEY: [kind, val]
  task,       \* in-flight StorageService calls, one slot per caller
  last,       \* the StorageService call that returned last, with its result
  now,        \* the reading of Date.now() / new Date()
  app,        \* App shell: its state hooks and its asynchronous handlers in flight
  hist,       \* RecordingHistory: the loaded list and the delete in flight
  ledger,     \* what the calls that returned to the UI promised about the list
  rec,        \* AudioRecorder: rendered state, ref, timers, platform capture
  handler,    \* AudioRecorder: in-flight startRecording/pauseRecording/stopRecording calls
  event,      \* AudioRecorder: what the last step of a handler showed and told the parent
  player,     \* AudioPlayer: rendered state and the platform's sound handles
  pcall,      \* AudioPlayer: in-flight loadAudio/togglePlayback/stopPlayback calls
  pevent,     \* AudioPlayer: what the last step of the player did
  settings,   \* AsyncStorage entry SETTINGS_KEY: [kind, val]
  done,       \* the call a client of the fallible store made last
  remote,     \* TranscriptionService.enhanceText: the call in flight or made last
  titled      \* StorageService.generateTitle: the call made last

storageVars == <<store, task, last, now>>
appVars == <<app, hist, ledger>>
recVars == <<rec, handler, event>>
playerVars == <<player, pcall, pevent>>
faultVars == <<settings, done>>
serviceVars == <<remote, titled>>
vars ==
  <<store, task, last, now, app, hist, ledger, rec, handler, event,
    player, pcall, pevent, settings, done, remote, titled>>

\* ---------------------------------------------------------------- bounds
MaxClock == 2
MaxRecordings == 2

\* ---------------------------------------------------------------- values
\* An optional value (undefined / null, or a value).
None == <<>>
Some(x) == <<x>>

\* Texts are sequences of characters.
TextA == <<"H", "i", ".", "Y", "o">>
TextB == <<"O", "k", " ", "g", "o">>
TextX == <<"N", "e", "w">>
TitleX == <<"X">>

\* The drafts handed to saveRecording: Omit<Recording, 'id'|'createdAt'|'updatedAt'>.
Drafts ==
  { [title |-> <<"H", "i">>, audioUri |-> "file:a.m4a",
     transcription |-> [text |-> TextA], tags |-> None],
    [title |-> TextB, audioUri |-> "file:b.m4a",
     transcription |-> [text |-> TextB], tags |-> Some(<<"work">>)] }

\* The partial records handed to updateRecording: Partial<Recording>.
Updates ==
  { [title |-> Some(TitleX), transcription |-> None],
    [title |-> None, transcription |-> Some([text |-> TextX])] }

Ids == 1..MaxClock

\* ---------------------------------------------------------------- JSON
\* A Date object holds milliseconds; JSON.stringify writes it as its ISO string
\* (millisecond precision) and new Date(string) reads the string back.
DateOf(ms) == [ms |-> ms]
ToISOString(d) == [iso |-> d.ms]
NewDate(s) == [ms |-> s.iso]

SerializeRecording(r) ==
  [r EXCEPT !.createdAt = ToISOString(@), !.updatedAt = ToISOString(@)]

JSONStringify(recordings) ==
  [kind |-> "json",
   val |-> [i \in 1..Len(recordings) |-> SerializeRecording(recordings[i])]]

\* Mutant: the dates are left as the strings that were parsed.
RehydrateNoDates(r) == r

Rehydrate(r) ==
  [r EXCEPT !.createdAt = NewDate(@), !.updatedAt = NewDate(@)]

NoItem == [kind |-> "null", val |-> <<>>]

\* getAllRecordings: [] when nothing is persisted or the value does not parse,
\* else the parsed list with its dates made Date objects again.
GetAllRecordings(raw) ==
  IF raw.kind = "json"
    THEN [i \in 1..Len(raw.val) |-> Rehydrate(raw.val[i])]
    ELSE <<>>

\* recordings.findIndex(r => r.id === id); 0 stands for -1.
FindIndex(recordings, id) ==
  IF \E i \in 1..Len(recordings) : recordings[i].id = id
    THEN CHOOSE i \in 1..Len(recordings) :
           /\ recordings[i].id = id
           /\ \A j \in 1..(i - 1) : recordings[j].id # id
    ELSE 0

\* getRecording: recordings.find(r => r.id === id) || null
GetRecording(raw, id) ==
  LET recordings == GetAllRecordings(raw)
      i == FindIndex(recordings, id)
  IN IF i = 0 THEN None ELSE Some(recordings[i])

\* saveRecording, lines 21-27: the id is the clock reading.
NewId(clock) == clock

NewRecording(draft, clock) ==
  [id |-> NewId(clock),
   title |-> draft.title,
   audioUri |-> draft.audioUri,
   transcription |-> draft.transcription,
   tags |-> draft.tags,
   createdAt |-> DateOf(clock),
   updatedAt |-> DateOf(clock)]

\* Mutant: push instead of unshift.
UnshiftAtEnd(recordings, r) == Append(recordings, r)

\* recordings.unshift(newRecording)
Unshift(recordings, r) == <<r>> \o recordings

\* Mutant: createdAt is refreshed along with updatedAt.
MergeUpdatesTouchesCreated(r, updates, clock) ==
  [r EXCEPT !.title = IF updates.title = None THEN @ ELSE updates.title[1],
            !.transcription = IF updates.transcription = None
                                THEN @ ELSE updates.transcription[1],
            !.createdAt = DateOf(clock),
            !.updatedAt = DateOf(clock)]

\* { ...recordings[index], ...updates, updatedAt: new Date() }
MergeUpdates(r, updates, clock) ==
  [r EXCEPT !.title = IF updates.title = None THEN @ ELSE updates.title[1],
            !.transcription = IF updates.transcription = None
                                THEN @ ELSE updates.transcription[1],
            !.updatedAt = DateOf(clock)]

\* Mutant: the filter's test is inverted.
FilterOutInverted(recordings, id) ==
  LET Keep(r) == r.id = id IN SelectSeq(recordings, Keep)

\* recordings.filter(r => r.id !== id)
FilterOut(recordings, id) ==
  LET Keep(r) == r.id # id IN SelectSeq(recordings, Keep)

\* deleteRecording's result when nothing threw.
DeleteResult(recordings, id) == TRUE

\* ---------------------------------------------------------------- StorageService calls
IdleTask ==
  [pc |-> "idle", op |-> "none", id |-> 0, draft |-> None, updates |-> None,
   clock |-> 0, recordings |-> <<>>, out |-> <<>>]

\* last.read: the list the call read; last.clock: the clock reading it took;
\* last.saves: the recordings the saves returned, in call order, while no other
\* mutation has been made (None afterwards).
NoCall ==
  [op |-> "none", id |-> 0, arg |-> None, ret |-> None, read |-> <<>>,
   clock |-> 0, saves |-> Some(<<>>)]

Callers == {"client", "app", "history"}

PersistedIds == {store.val[i].id : i \in 1..Len(store.val)}

\* saveRecording up to its first await: the id and both dates are read from the clock.
SaveRecordingCall(t, draft) ==
  /\ task[t].pc = "idle"
  /\ Len(store.val) < MaxRecordings
  /\ task' = [task EXCEPT ![t] =
       [IdleTask EXCEPT !.pc = "read", !.op = "save", !.draft = Some(draft),
                        !.clock = now, !.id = NewId(now)]]
  /\ UNCHANGED <<store, last, now>>

UpdateRecordingCall(t, id, updates) ==
  /\ task[t].pc = "idle"
  /\ task' = [task EXCEPT ![t] =
       [IdleTask EXCEPT !.pc = "read", !.op = "update", !.id = id,
                        !.updates = Some(updates)]]
  /\ UNCHANGED <<store, last, now>>

DeleteRecordingCall(t, id) ==
  /\ task[t].pc = "idle"
  /\ task' = [task EXCEPT ![t] =
       [IdleTask EXCEPT !.pc = "read", !.op = "delete", !.id = id]]
  /\ UNCHANGED <<store, last, now>>

\* The call after getAllRecordings returned recordings: on its way to setItem
\* with the list it will write, or returned (updateRecording, id not found).
AfterRead(cur, recordings) ==
  CASE cur.op = "save" ->
         [cur EXCEPT !.pc = "write", !.recordings = recordings,
            !.out = Unshift(recordings, NewRecording(cur.draft[1], cur.clock))]
    [] cur.op = "update" ->
         LET index == FindIndex(recordings, cur.id)
         IN IF index = 0
              THEN IdleTask
              ELSE [cur EXCEPT !.pc = "write", !.recordings = recordings,
                      !.clock = now,
                      !.out = [recordings EXCEPT ![index] =
                                 MergeUpdates(@, cur.updates[1], now)]]
    [] cur.op = "delete" ->
         [cur EXCEPT !.pc = "write", !.recordings = recordings,
            !.out = FilterOut(recordings, cur.id)]

\* AsyncStorage.getItem resolves and the call runs on to its setItem (or returns).
StorageRead(t) ==
  /\ task[t].pc = "read"
  /\ LET recordings == GetAllRecordings(store)
         cur == task[t]
     IN /\ task' = [task EXCEPT ![t] = AfterRead(cur, recordings)]
        /\ last' = IF AfterRead(cur, recordings) = IdleTask
                     THEN [op |-> "update", id |-> cur.id,
                           arg |-> cur.updates, ret |-> None,
                           read |-> recordings, clock |-> 0,
                           saves |-> last.saves]
                     ELSE last
  /\ UNCHANGED <<store, now>>

\* What the call resolves to once its setItem went through.
Returned(cur) ==
  CASE cur.op = "save" -> Some(cur.out[1])
    [] cur.op = "update" -> Some(cur.out[FindIndex(cur.recordings, cur.id)])
    [] cur.op = "delete" -> Some(DeleteResult(cur.recordings, cur.id))

\* AsyncStorage.setItem(RECORDINGS_KEY, JSON.stringify(...)) resolves.
SetItem(t) ==
  /\ task[t].pc = "write"
  /\ store' = JSONStringify(task[t].out)
  /\ task' = [task EXCEPT ![t] = IdleTask]

\* The setItem resolves and the call returns.
StorageWrite(t) ==
  /\ SetItem(t)
  /\ last' = [op |-> task[t].op, id |-> task[t].id,
              arg |-> IF task[t].op = "save" THEN task[t].draft ELSE task[t].updates,
              ret |-> Returned(task[t]), read |-> task[t].recordings,
              clock |-> task[t].clock,
              saves |-> IF task[t].op = "save" /\ last.saves # None
                          THEN Some(Append(last.saves[1], task[t].out[1]))
                          ELSE None]
  /\ UNCHANGED now

\* Time passes between two readings of the clock.
Tick ==
  /\ now < MaxClock
  /\ now' = now + 1
  /\ UNCHANGED <<store, task, last>>

\* ---------------------------------------------------------------- StorageService over a store that can fail
\* AsyncStorage entry SETTINGS_KEY: a JSON object, one property per setting.
SettingKeys == {"theme", "language"}
SettingValues == {"dark", "light"}

\* The JSON value null.
Null == "null"

\* {}: no property is set.
EmptySettings == [k \in SettingKeys |-> None]

NoSettings == [kind |-> "null", val |-> EmptySettings]

\* A persisted string that JSON.parse rejects.
Garbage == [kind |-> "garbage", val |-> <<>>]
GarbageSettings == [kind |-> "garbage", val |-> EmptySettings]

\* Mutant: a failed read hands on what is persisted.
OnReadFailureReadsAnyway(raw) == GetAllRecordings(raw)

\* getAllRecordings, lines 52-55: the catch returns [].
OnReadFailure(raw) == <<>>

\* getAllRecordings with its getItem resolving (readOk) or rejecting.
GetAllRecordingsOrEmpty(raw, readOk) ==
  IF readOk THEN GetAllRecordings(raw) ELSE OnReadFailure(raw)

\* Mutant: deleteRecording rethrows like the other two.
OnWriteFailureAllRaise(op) == [outcome |-> "raised", ret |-> None]

\* The catch blocks of saveRecording (line 36) and updateRecording (line 85)
\* rethrow; the one of deleteRecording (line 98) returns false.
OnWriteFailure(op) ==
  IF op = "delete" THEN [outcome |-> "returned", ret |-> Some(FALSE)]
  ELSE [outcome |-> "raised", ret |-> None]

\* Mutant: the object written has the one key only.
SetKeyOnly(parsedSettings, key, value) == [EmptySettings EXCEPT ![key] = Some(value)]

\* Mutant: setting a key that already has the value removes it.
SetKeyToggles(parsedSettings, key, value) ==
  [parsedSettings EXCEPT ![key] = IF @ = Some(value) THEN None ELSE Some(value)]

\* parsedSettings[key] = value
SetKey(parsedSettings, key, value) == [parsedSettings EXCEPT ![key] = Some(value)]

\* The call the client made last: its operation and arguments, how it ended
\* (pending, returned, raised) and with what, whether its getItem or setItem
\* failed, both entries as they were when it was made, and whether the call
\* before it was the same call and went through.  pc and parsed are those of a
\* setSetting in flight.
NoDone ==
  [op |-> "none", id |-> 0, arg |-> None, outcome |-> "returned", ret |-> None,
   readFailed |-> FALSE, writeFailed |-> FALSE, before |-> <<NoItem, NoSettings>>,
   repeat |-> FALSE, pc |-> "done", parsed |-> EmptySettings]

WentThrough(d) == d.outcome = "returned" /\ ~d.readFailed /\ ~d.writeFailed

ClientIdle == task["client"].pc = "idle" /\ done.outcome # "pending"

Begin(op, id, arg) ==
  [NoDone EXCEPT !.op = op, !.id = id, !.arg = arg, !.outcome = "pending",
     !.before = <<store, settings>>,
     !.repeat = (WentThrough(done) /\ done.op = op /\ done.id = id /\ done.arg = arg)]

FaultySave(draft) ==
  /\ ClientIdle
  /\ SaveRecordingCall("client", draft)
  /\ done' = Begin("save", 0, Some(draft))
  /\ UNCHANGED settings

FaultyUpdate(id, updates) ==
  /\ ClientIdle
  /\ UpdateRecordingCall("client", id, updates)
  /\ done' = Begin("update", id, Some(updates))
  /\ UNCHANGED settings

FaultyDelete(id) ==
  /\ ClientIdle
  /\ DeleteRecordingCall("client", id)
  /\ done' = Begin("delete", id, None)
  /\ UNCHANGED settings

\* The getItem inside getAllRecordings resolves or rejects, and the call runs on
\* with the list getAllRecordings returned.
FaultyRead(readOk) ==
  /\ done.outcome = "pending"
  /\ task["client"].pc = "read"
  /\ task' = [task EXCEPT !["client"] =
       AfterRead(@, GetAllRecordingsOrEmpty(store, readOk))]
  /\ UNCHANGED <<store, last, now>>
  /\ done' = IF task'["client"].pc = "idle"
               THEN [done EXCEPT !.outcome = "returned", !.ret = None,
                                 !.readFailed = ~readOk]
               ELSE [done EXCEPT !.readFailed = ~readOk]
  /\ UNCHANGED settings

\* The setItem resolves, or rejects and the catch runs.
FaultyWrite(writeOk) ==
  /\ done.outcome = "pending"
  /\ task["client"].pc = "write"
  /\ IF writeOk
       THEN /\ SetItem("client")
            /\ done' = [done EXCEPT !.outcome = "returned",
                                    !.ret = Returned(task["client"])]
            /\ UNCHANGED <<last, now>>
       ELSE /\ task' = [task EXCEPT !["client"] = IdleTask]
            /\ done' = [done EXCEPT !.outcome = OnWriteFailure(done.op).outcome,
                                    !.ret = OnWriteFailure(done.op).ret,
                                    !.writeFailed = TRUE]
            /\ UNCHANGED <<store, last, now>>
  /\ UNCHANGED settings

\* getAllRecordings() called by the client.
FaultyGetAll(readOk) ==
  /\ ClientIdle
  /\ done' = [Begin("getAll", 0, None) EXCEPT
                !.outcome = "returned",
                !.ret = Some(GetAllRecordingsOrEmpty(store, readOk)),
                !.readFailed = ~readOk]
  /\ UNCHANGED <<storageVars, settings>>

\* getRecording(id): recordings.find(r => r.id === id) || null
FaultyGetRecording(id, readOk) ==
  /\ ClientIdle
  /\ LET recordings == GetAllRecordingsOrEmpty(store, readOk)
         i == FindIndex(recordings, id)
     IN done' = [Begin("get", id, None) EXCEPT
                   !.outcome = "returned",
                   !.ret = IF i = 0 THEN None ELSE Some(recordings[i]),
                   !.readFailed = ~readOk]
  /\ UNCHANGED <<storageVars, settings>>

\* setSetting(key, value) up to its await of getItem.
SetSettingCall(key, value) ==
  /\ ClientIdle
  /\ done' = [Begin("setSetting", 0, Some(<<key, value>>)) EXCEPT !.pc = "read"]
  /\ UNCHANGED <<storageVars, settings>>

\* getItem(SETTINGS_KEY) resolves and the value parses (lines 133-135), or the
\* read or the parse throws (catch: rethrow).
SetSettingRead(readOk) ==
  /\ done.outcome = "pending" /\ done.pc = "read"
  /\ done' = IF readOk /\ settings.kind # "garbage"
               THEN [done EXCEPT !.pc = "write",
                       !.parsed = SetKey(IF settings.kind = "json" THEN settings.val
                                         ELSE EmptySettings,
                                         done.arg[1][1], done.arg[1][2])]
               ELSE [done EXCEPT !.pc = "done", !.outcome = "raised",
                                 !.readFailed = TRUE]
  /\ UNCHANGED <<storageVars, settings>>

\* setItem(SETTINGS_KEY, JSON.stringify(parsedSettings)) resolves or rejects.
SetSettingWrite(writeOk) ==
  /\ done.outcome = "pending" /\ done.pc = "write"
  /\ settings' = IF writeOk THEN [kind |-> "json", val |-> done.parsed] ELSE settings
  /\ done' = [done EXCEPT !.pc = "done", !.parsed = EmptySettings,
                          !.outcome = IF writeOk THEN "returned" ELSE "raised",
                          !.writeFailed = ~writeOk]
  /\ UNCHANGED storageVars

\* Mutant: the default whatever is stored.
CoalesceAlwaysDefault(value, defaultValue) == defaultValue

\* value ?? defaultValue: the default when the property is missing (undefined)
\* or null.
Coalesce(value, defaultValue) ==
  IF value = None \/ value = Some(Null) THEN defaultValue ELSE value[1]

\* getSetting(key, defaultValue): the getItem resolves and the value parses
\* (lines 121-123), or the read or the parse throws (catch: the default).
GetSetting(key, defaultValue, readOk) ==
  /\ ClientIdle
  /\ done' = [Begin("getSetting", 0, Some(<<key, defaultValue>>)) EXCEPT
                !.outcome = "returned",
                !.ret = IF readOk /\ settings.kind # "garbage"
                          THEN Some(Coalesce((IF settings.kind = "json" THEN settings.val
                                              ELSE EmptySettings)[key], defaultValue))
                          ELSE Some(defaultValue),
                !.readFailed = ~readOk]
  /\ UNCHANGED <<storageVars, settings>>

\* clearAllData: multiRemove of both keys resolves, or rejects with nothing
\* removed (catch: rethrow).
ClearAllData(ok) ==
  /\ ClientIdle
  /\ store' = IF ok THEN NoItem ELSE store
  /\ settings' = IF ok THEN NoSettings ELSE settings
  /\ done' = [Begin("clear", 0, None) EXCEPT
                !.outcome = IF ok THEN "returned" ELSE "raised",
                !.writeFailed = ~ok]
  /\ UNCHANGED <<task, last, now>>

\* Something other than this program left a value that does not parse.
StoreCorrupted ==
  /\ ClientIdle
  /\ \/ store.kind # "garbage" /\ store' = Garbage /\ UNCHANGED settings
     \/ settings.kind # "garbage" /\ settings' = GarbageSettings /\ UNCHANGED store
  /\ done' = NoDone
  /\ UNCHANGED <<task, last, now>>

\* Time passes between two calls of the client.
FaultyTick ==
  /\ Tick
  /\ UNCHANGED faultVars

\* ---------------------------------------------------------------- text helpers
Min(a, b) == IF a < b THEN a ELSE b

\* Mutant: the character at n is taken too.
SubstringInclusive(text, n) == SubSeq(text, 1, Min(n + 1, Len(text)))

\* text.substring(0, n)
Substring(text, n) == SubSeq(text, 1, Min(n, Len(text)))

\* text.split(separators)[0]: the text before the first separator.
FirstSegment(text, seps) ==
  IF \E i \in 1..Len(text) : text[i] \in seps
    THEN LET k == CHOOSE i \in 1..Len(text) :
                    /\ text[i] \in seps
                    /\ \A j \in 1..(i - 1) : text[j] \notin seps
         IN SubSeq(text, 1, k - 1)
    ELSE text

Whitespace == {" "}

\* Mutant: trimStart, the trailing whitespace stays.
TrimStart(text) ==
  IF \A i \in 1..Len(text) : text[i] \in Whitespace
    THEN <<>>
    ELSE LET a == CHOOSE i \in 1..Len(text) :
                    /\ text[i] \notin Whitespace
                    /\ \A j \in 1..(i - 1) : text[j] \in Whitespace
         IN SubSeq(text, a, Len(text))

\* String.prototype.trim
Trim(text) ==
  IF \A i \in 1..Len(text) : text[i] \in Whitespace
    THEN <<>>
    ELSE LET a == CHOOSE i \in 1..Len(text) :
                    /\ text[i] \notin Whitespace
                    /\ \A j \in 1..(i - 1) : text[j] \in Whitespace
             b == CHOOSE i \in 1..Len(text) :
                    /\ text[i] \notin Whitespace
                    /\ \A j \in (i + 1)..Len(text) : text[j] \in Whitespace
         IN SubSeq(text, a, b)

TitleMaxLen == 50
TitleCut == 47

\* StorageService.generateTitle
GenerateTitle(transcriptionText) ==
  LET firstSentence == Trim(FirstSegment(transcriptionText, {".", "!", "?"}))
  IN IF Len(firstSentence) > 0 /\ Len(firstSentence) <= TitleMaxLen
       THEN firstSentence
       ELSE Substring(transcriptionText, TitleCut)
              \o (IF Len(transcriptionText) > TitleCut
                    THEN <<".", ".", ".">> ELSE <<>>)

\* The texts handed to generateTitle: lead spaces, letters letters, gap spaces,
\* an optional terminator and a tail.
MaxLetters == 52
Terminators == {".", "!", "?"}
Repeat(c, n) == [i \in 1..n |-> c]
TitleTails == {<<>>, <<" ", "b", ".">>, Repeat("b", TitleMaxLen)}

TitleText(lead, letters, gap, term, tail) ==
  Repeat(" ", lead) \o Repeat("a", letters) \o Repeat(" ", gap) \o term \o tail

NoTitle == [called |-> FALSE, text |-> <<>>, title |-> <<>>]

\* StorageService.generateTitle(titled.text) is called.
GenerateTitleCall ==
  /\ ~titled.called
  /\ titled' = [titled EXCEPT !.called = TRUE, !.title = GenerateTitle(titled.text)]
  /\ UNCHANGED remote

SummaryCut == 100

Modes == {"summary", "bullets", "action_items"}

\* MockTranscriptionService.enhanceText (the service App constructs); each fixed
\* piece of the template is one element of the text.
EnhanceText(text, mode) ==
  CASE mode = "summary" ->
         <<"**Summary:** ">> \o Substring(text, SummaryCut) \o <<"...">>
    [] mode = "bullets" ->
         <<"**Key Points:**\n* ">> \o FirstSegment(text, {"."})
           \o <<"\n* Mock bullet point 2\n* Mock bullet point 3">>
    [] mode = "action_items" ->
         <<"**Action Items:**\n[] Mock action item 1\n[] Mock action item 2\n[] Mock action item 3">>

\* ---------------------------------------------------------------- searchRecordings
UpperCase == <<"G", "H", "I", "O", "W", "Y">>
LowerCase == <<"g", "h", "i", "o", "w", "y">>

\* Mutant: the case is kept.
ToLowerCaseKeeps(text) == text

\* String.prototype.toLowerCase
ToLowerCase(text) ==
  [i \in 1..Len(text) |->
     IF \E k \in 1..Len(UpperCase) : UpperCase[k] = text[i]
       THEN LowerCase[CHOOSE k \in 1..Len(UpperCase) : UpperCase[k] = text[i]]
       ELSE text[i]]

\* String.prototype.includes
Includes(text, query) ==
  \E i \in 0..(Len(text) - Len(query)) : SubSeq(text, i + 1, i + Len(query)) = query

\* The filter's test (lines 108-110); tags?.some(...) is undefined, hence
\* false, for a recording without tags.
SearchTest(recording, lowerQuery) ==
  \/ Includes(ToLowerCase(recording.title), lowerQuery)
  \/ Includes(ToLowerCase(recording.transcription.text), lowerQuery)
  \/ /\ recording.tags # None
     /\ \E k \in 1..Len(recording.tags[1]) :
          Includes(ToLowerCase(recording.tags[1][k]), lowerQuery)

\* recordings.filter(...) for query.toLowerCase()
SearchFilter(recordings, query) ==
  LET Test(r) == SearchTest(r, ToLowerCase(query)) IN SelectSeq(recordings, Test)

\* searchRecordings(query) called by the client; its getAllRecordings gives the
\* persisted list, or [] when the getItem rejects.
SearchRecordings(query, readOk) ==
  /\ ClientIdle
  /\ done' = [Begin("search", 0, Some(query)) EXCEPT
                !.outcome = "returned",
                !.ret = Some(SearchFilter(GetAllRecordingsOrEmpty(store, readOk), query)),
                !.readFailed = ~readOk]
  /\ UNCHANGED <<storageVars, settings>>

\* Recordings with capitals in title, text and tags, and the queries made.
SearchDrafts ==
  { [title |-> <<"H", "i">>, audioUri |-> "file:a.m4a",
     transcription |-> [text |-> TextA], tags |-> None],
    [title |-> TextB, audioUri |-> "file:b.m4a",
     transcription |-> [text |-> TextB], tags |-> Some(<< <<"W", "i">>, <<"y">> >>)],
    [title |-> TitleX, audioUri |-> "file:c.m4a",
     transcription |-> [text |-> TextX], tags |-> Some(<<>>)] }

Queries ==
  {<<>>, <<"h", "i">>, <<"I">>, <<"G", "O">>, <<"w">>, <<"y">>, <<"z">>, <<"o", "k", " ">>}

\* ---------------------------------------------------------------- TranscriptionService (remote)
\* The texts handed to enhanceText and the contents a completion carries.
RemoteTexts == {<<>>, TextA, TextB, TextX}
EnhancedContents == {<<"S", "u", "m">>, <<"-", " ", "a">>}

\* How the fetch settles: it rejects (transport error), or resolves with a
\* response whose ok is true or false.
FetchOutcomes == {"rejects", "ok", "notOk"}

\* What response.json() gives for an ok response: it rejects (invalid), or
\* resolves with a body without choices, with choices [], with a first choice
\* without message, with a message whose content is null, or with a content.
ResponseBodies ==
  {[kind |-> k, content |-> None] :
     k \in {"invalid", "noChoices", "emptyChoices", "noMessage", "nullContent"}}
  \cup {[kind |-> "content", content |-> Some(c)] : c \in EnhancedContents \cup {<<>>}}

\* pc: idle, fetch, errorJson, json, done; via: what decided the result.
NoRemoteCall ==
  [pc |-> "idle", text |-> <<>>, mode |-> "none", outcome |-> "returned",
   ret |-> None, via |-> "none"]

\* Mutant: the catch rethrows, as the one of transcribeAudio does.
EnhanceCatchRethrows(text) == [outcome |-> "raised", ret |-> None]

\* enhanceText, lines 392-395: the catch logs and returns the text it was given.
EnhanceCatch(text) == [outcome |-> "returned", ret |-> Some(text)]

\* The call ends in its catch block.
Caught(r, via) ==
  [r EXCEPT !.pc = "done", !.outcome = EnhanceCatch(r.text).outcome,
            !.ret = EnhanceCatch(r.text).ret, !.via = via]

\* enhanceText(text, mode) up to its await of fetch.
RemoteEnhanceCall(text, mode) ==
  /\ remote.pc \in {"idle", "done"}
  /\ remote' = [NoRemoteCall EXCEPT !.pc = "fetch", !.text = text, !.mode = mode,
                                    !.outcome = "pending"]
  /\ UNCHANGED titled

\* The fetch settles (lines 365-382).
RemoteFetch(outcome) ==
  /\ remote.pc = "fetch"
  /\ remote' = CASE outcome = "rejects" -> Caught(remote, "transport")
                 [] outcome = "ok" -> [remote EXCEPT !.pc = "json"]
                 [] outcome = "notOk" -> [remote EXCEPT !.pc = "errorJson"]
  /\ UNCHANGED titled

\* !response.ok (lines 384-387): response.json() resolves or rejects, and an
\* Error is thrown either way.
RemoteErrorJson(parsed) ==
  /\ remote.pc = "errorJson"
  /\ remote' = Caught(remote, "status")
  /\ UNCHANGED titled

\* result.choices[0]?.message?.content: undefined (None) when the first choice
\* or its message is missing.
FirstChoiceContent(body) == body.content

\* a || b on strings: b when a is undefined, null or "".
OrElse(content, text) ==
  IF content # None /\ content[1] # <<>> THEN content[1] ELSE text

\* Lines 389-390: response.json() rejects, or result.choices is undefined and
\* reading its [0] throws, or the content (or the text) is returned.
RemoteResultJson(body) ==
  /\ remote.pc = "json"
  /\ remote' =
       IF body.kind \in {"invalid", "noChoices"}
         THEN Caught(remote, body.kind)
         ELSE [remote EXCEPT !.pc = "done", !.outcome = "returned",
                 !.ret = Some(OrElse(FirstChoiceContent(body), remote.text)),
                 !.via = IF body.content = Some(<<>>) THEN "emptyContent"
                         ELSE body.kind]
  /\ UNCHANGED titled

\* ---------------------------------------------------------------- App shell and history
MaxTextLen == 5

\* What transcribeAudio resolves to, and what the user types into the editor.
Transcripts == {TextA}
EditedTexts == {TextX}
AudioUris == {"file:a.m4a"}

InitApp ==
  [index |-> 0,
   currentTranscription |-> None,
   isProcessing |-> FALSE,
   isRecording |-> FALSE,
   selectedRecording |-> None,
   currentAudioUri |-> None,
   complete |-> [pc |-> "idle", uri |-> None],
   enhance |-> [pc |-> "idle", captured |-> None, mode |-> "none"]]

InitHistory == [recordings |-> <<>>, delete |-> [pc |-> "idle", id |-> 0]]

\* ledger.present: ids of recordings whose saveRecording returned to the App and
\* that no returned deleteRecording took out since; ledger.absent: ids a returned
\* deleteRecording took out and no returned saveRecording put in since;
\* ledger.edited: the recording and text of the last transcript edit or
\* enhancement made while that recording was selected.
InitLedger == [present |-> {}, absent |-> {}, edited |-> None]

\* handleRecordingComplete up to its await of transcribeAudio (one capture is
\* processed at a time).
HandleRecordingComplete(uri) ==
  /\ app.complete.pc = "idle"
  /\ Len(store.val) < MaxRecordings
  /\ app' = [app EXCEPT !.isRecording = FALSE, !.isProcessing = TRUE,
                        !.currentAudioUri = Some(uri),
                        !.complete = [pc |-> "transcribing", uri |-> Some(uri)]]
  /\ UNCHANGED <<storageVars, hist, ledger>>

\* transcribeAudio resolves: the transcript is shown and saveRecording is called.
TranscribeResolve(text) ==
  /\ app.complete.pc = "transcribing"
  /\ LET transcription == [text |-> text]
     IN /\ SaveRecordingCall("app",
             [title |-> GenerateTitle(transcription.text),
              audioUri |-> app.complete.uri[1],
              transcription |-> transcription,
              tags |-> None])
        /\ app' = [app EXCEPT !.currentTranscription = Some(transcription),
                              !.complete.pc = "saving"]
  /\ ledger' = [ledger EXCEPT !.edited = None]
  /\ UNCHANGED hist

\* Mutant: the catch saves a recording of the capture all the same.
TranscribeRejectSavesAnyway ==
  /\ app.complete.pc = "transcribing"
  /\ SaveRecordingCall("app",
       [title |-> <<>>, audioUri |-> app.complete.uri[1],
        transcription |-> [text |-> <<>>], tags |-> None])
  /\ app' = [app EXCEPT !.complete.pc = "saving"]
  /\ UNCHANGED <<hist, ledger>>

\* transcribeAudio rejects: catch logs, finally clears isProcessing.
TranscribeReject ==
  /\ app.complete.pc = "transcribing"
  /\ app' = [app EXCEPT !.isProcessing = FALSE,
                        !.complete = [pc |-> "idle", uri |-> None]]
  /\ UNCHANGED <<storageVars, hist, ledger>>

\* saveRecording reads the list for handleRecordingComplete.
CompleteSaveRead ==
  /\ app.complete.pc = "saving"
  /\ StorageRead("app")
  /\ UNCHANGED appVars

\* saveRecording returns to handleRecordingComplete, whose finally runs.
CompleteSaveReturn ==
  /\ app.complete.pc = "saving"
  /\ StorageWrite("app")
  /\ app' = [app EXCEPT !.isProcessing = FALSE,
                        !.complete = [pc |-> "idle", uri |-> None]]
  /\ ledger' = [ledger EXCEPT !.present = @ \cup {task["app"].id},
                              !.absent = @ \ {task["app"].id}]
  /\ UNCHANGED hist

\* handleEnhanceText up to its await; the closure keeps the transcript it saw
\* (one enhancement is in flight at a time, and only texts of at most MaxTextLen
\* elements are enhanced).
HandleEnhanceText(mode) ==
  /\ app.enhance.pc = "idle"
  /\ app.currentTranscription # None
  /\ Len(app.currentTranscription[1].text) <= MaxTextLen
  /\ app' = [app EXCEPT !.enhance =
       [pc |-> "enhancing", captured |-> app.currentTranscription, mode |-> mode]]
  /\ UNCHANGED <<storageVars, hist, ledger>>

\* enhanceText resolves: setCurrentTranscription({...currentTranscription, text}).
EnhanceResolve ==
  /\ app.enhance.pc = "enhancing"
  /\ LET enhancedText == EnhanceText(app.enhance.captured[1].text, app.enhance.mode)
     IN /\ app' = [app EXCEPT
               !.currentTranscription =
                  Some([app.enhance.captured[1] EXCEPT !.text = enhancedText]),
               !.enhance = [pc |-> "idle", captured |-> None, mode |-> "none"]]
        /\ ledger' = [ledger EXCEPT !.edited =
               IF app.selectedRecording = None THEN None
               ELSE Some([id |-> app.selectedRecording[1].id, text |-> enhancedText])]
  /\ UNCHANGED <<storageVars, hist>>

\* handleSaveTranscript(editedText)
HandleSaveTranscript(editedText) ==
  /\ app.currentTranscription # None
  /\ app' = [app EXCEPT !.currentTranscription =
       Some([app.currentTranscription[1] EXCEPT !.text = editedText])]
  /\ ledger' = [ledger EXCEPT !.edited =
       IF app.selectedRecording = None THEN None
       ELSE Some([id |-> app.selectedRecording[1].id, text |-> editedText])]
  /\ UNCHANGED <<storageVars, hist>>

\* What handleClearTranscript leaves of the App state.
Cleared(a) ==
  [a EXCEPT !.currentTranscription = None, !.selectedRecording = None,
            !.currentAudioUri = None]

\* handleClearTranscript
HandleClearTranscript ==
  /\ app' = Cleared(app)
  /\ ledger' = [ledger EXCEPT !.edited = None]
  /\ UNCHANGED <<storageVars, hist>>

\* handleSelectRecording(recording), from a card of the history list.
HandleSelectRecording(i) ==
  /\ i \in 1..Len(hist.recordings)
  /\ LET recording == hist.recordings[i]
     IN app' = [app EXCEPT !.currentTranscription = Some(recording.transcription),
                           !.selectedRecording = Some(recording),
                           !.currentAudioUri = Some(recording.audioUri),
                           !.index = 0]
  /\ ledger' = [ledger EXCEPT !.edited = None]
  /\ UNCHANGED <<storageVars, hist>>

\* RecordingHistory's mount effect: loadRecordings.
LoadRecordings ==
  /\ hist.delete.pc = "idle"
  /\ hist' = [hist EXCEPT !.recordings = GetAllRecordings(store)]
  /\ UNCHANGED <<storageVars, app, ledger>>

\* handleDeleteRecording(id) and the user's Delete in the alert: deleteRecording
\* is called.
ConfirmDelete(i) ==
  /\ hist.delete.pc = "idle"
  /\ i \in 1..Len(hist.recordings)
  /\ DeleteRecordingCall("history", hist.recordings[i].id)
  /\ hist' = [hist EXCEPT !.delete = [pc |-> "deleting", id |-> hist.recordings[i].id]]
  /\ UNCHANGED <<app, ledger>>

\* deleteRecording reads the list for the history screen.
DeleteRead ==
  /\ hist.delete.pc = "deleting"
  /\ StorageRead("history")
  /\ UNCHANGED appVars

\* deleteRecording returns to the alert's onPress, which calls loadRecordings.
DeleteReturn ==
  /\ hist.delete.pc = "deleting"
  /\ StorageWrite("history")
  /\ hist' = [hist EXCEPT !.delete.pc = "loading"]
  /\ ledger' = [ledger EXCEPT !.present = @ \ {hist.delete.id},
                              !.absent = @ \cup {hist.delete.id}]
  /\ UNCHANGED app

\* loadRecordings resolves; onDeleteRecording(id) runs in the App shell.
DeleteReloaded ==
  /\ hist.delete.pc = "loading"
  /\ hist' = [recordings |-> GetAllRecordings(store),
              delete |-> [pc |-> "idle", id |-> 0]]
  /\ app' = IF app.selectedRecording # None
               /\ app.selectedRecording[1].id = hist.delete.id
             THEN Cleared(app) ELSE app
  /\ UNCHANGED <<storageVars, ledger>>

\* The getItem inside the history screen's deleteRecording rejects:
\* getAllRecordings gives [] and the call runs on to its setItem.
DeleteReadRejected ==
  /\ hist.delete.pc = "deleting"
  /\ task["history"].pc = "read"
  /\ task' = [task EXCEPT !["history"] = AfterRead(@, OnReadFailure(store))]
  /\ UNCHANGED <<store, last, now, appVars>>

\* The setItem of the history screen's deleteRecording rejects: the catch of
\* deleteRecording returns false to the alert's onPress, which does not look
\* at the value and calls loadRecordings (a call that raised would end in the
\* onPress's catch instead).
DeleteWriteRejected ==
  /\ hist.delete.pc = "deleting"
  /\ task["history"].pc = "write"
  /\ task' = [task EXCEPT !["history"] = IdleTask]
  /\ hist' = IF OnWriteFailure("delete").outcome = "returned"
               THEN [hist EXCEPT !.delete.pc = "loading"]
               ELSE [hist EXCEPT !.delete = [pc |-> "idle", id |-> 0]]
  /\ UNCHANGED <<store, last, now, app, ledger>>

\* ---------------------------------------------------------------- AudioRecorder
\* Calls of startRecording / pauseRecording / stopRecording made in one run, and
\* the seconds the duration counter may reach.
MaxCalls == 3
MaxDuration == 1

\* The component's hooks (lines 14-19) as last rendered, the interval table of
\* the JS runtime (timers), and what the component told its parent
\* (completions: onRecordingComplete calls per capture).  reentered: captures
\* for which stopRecording was called while a stopRecording on them was running.
InitRecorder ==
  [mounted |-> TRUE,
   recording |-> None,
   isRecording |-> FALSE,
   isPaused |-> FALSE,
   recordingDuration |-> 0,
   isProcessing |-> FALSE,
   durationInterval |-> None,
   timers |-> {},
   made |-> 0,
   calls |-> 0,
   completions |-> [c \in 1..MaxCalls |-> 0],
   reentered |-> {}]

\* The last step a handler made: the handler (fn) and the await it resumed from
\* (step), how the awaited platform call ended (outcome), whether Alert.alert
\* was called, the arguments onRecordingStateChange was called with, and whether
\* an error left the handler for its caller.
NoEvent ==
  [fn |-> "none", step |-> "none", outcome |-> "ok", alert |-> FALSE,
   notified |-> None, raised |-> FALSE]

\* The catch blocks: startRecording (line 55) and stopRecording (line 113) call
\* Alert.alert, pauseRecording (line 79) only logs.
CatchAlerts(fn) == fn \in {"start", "stop"}

\* Every await of the three handlers is inside the handler's try block.
Event(fn, step, outcome, notified) ==
  [fn |-> fn, step |-> step, outcome |-> outcome,
   alert |-> (outcome = "denied" \/ (outcome = "threw" /\ CatchAlerts(fn))),
   notified |-> IF outcome = "ok" THEN notified ELSE None,
   raised |-> FALSE]

\* A call in flight keeps the values its closure was created with.
NoHandler == [fn |-> "none", pc |-> "done", recording |-> None, duration |-> 0]

\* Hooks are only set while the component is mounted.
SetState(next) == rec' = IF rec.mounted THEN next
                         ELSE [rec EXCEPT !.durationInterval = next.durationInterval,
                                          !.timers = next.timers,
                                          !.made = next.made,
                                          !.calls = next.calls,
                                          !.completions = next.completions,
                                          !.reentered = next.reentered]

Finish(h) == handler' = [handler EXCEPT ![h] = NoHandler]

\* setInterval: a timer the runtime has not handed out before.
NewTimer(r) == r.made + 1

\* durationInterval.current = setInterval(...)
WithInterval(r) ==
  [r EXCEPT !.durationInterval = Some(NewTimer(r)),
            !.timers = @ \cup {NewTimer(r)},
            !.made = NewTimer(r)]

\* if (durationInterval.current) clearInterval(durationInterval.current)
ClearInterval(r) ==
  IF r.durationInterval = None THEN r
  ELSE [r EXCEPT !.timers = @ \ {r.durationInterval[1]}]

\* A handler is invoked, from the closure of the last render.
Invoke(fn, pc) ==
  /\ rec.mounted
  /\ rec.calls < MaxCalls
  /\ handler' = [handler EXCEPT ![rec.calls + 1] =
       IF pc = "done" THEN NoHandler
       ELSE [fn |-> fn, pc |-> pc, recording |-> rec.recording,
             duration |-> rec.recordingDuration]]

\* startRecording up to its await of requestPermissionsAsync.
StartRecordingCall ==
  /\ Invoke("start", "permission")
  /\ rec' = [rec EXCEPT !.calls = @ + 1]
  /\ event' = Event("start", "call", "ok", None)

\* requestPermissionsAsync resolves granted, resolves denied (alert, return), or
\* throws (catch: alert).
StartPermission(h, outcome) ==
  /\ handler[h].fn = "start" /\ handler[h].pc = "permission"
  /\ handler' = [handler EXCEPT ![h] =
       IF outcome = "granted" THEN [@ EXCEPT !.pc = "mode"] ELSE NoHandler]
  /\ event' = Event("start", "permission",
                    IF outcome = "granted" THEN "ok" ELSE outcome, None)
  /\ UNCHANGED rec

\* setAudioModeAsync resolves or throws.
StartAudioMode(h, ok) ==
  /\ handler[h].fn = "start" /\ handler[h].pc = "mode"
  /\ handler' = [handler EXCEPT ![h] =
       IF ok THEN [@ EXCEPT !.pc = "create"] ELSE NoHandler]
  /\ event' = Event("start", "mode", IF ok THEN "ok" ELSE "threw", None)
  /\ UNCHANGED rec

\* Audio.Recording.createAsync resolves with a new capture (lines 40-51) or throws.
StartCreate(h, ok) ==
  /\ handler[h].fn = "start" /\ handler[h].pc = "create"
  /\ Finish(h)
  /\ IF ok
       THEN SetState(WithInterval(
              [rec EXCEPT !.recording = Some(h), !.isRecording = TRUE,
                          !.recordingDuration = 0]))
       ELSE UNCHANGED rec
  /\ event' = Event("start", "create", IF ok THEN "ok" ELSE "threw",
                    Some(<<TRUE, FALSE>>))

\* Mutant: the guard is missing.
PauseGuardMissing(recording) == FALSE

\* pauseRecording, line 60: if (!recording) return
PauseGuard(recording) == recording = None

\* pauseRecording up to its await of startAsync or pauseAsync.
PauseRecordingCall ==
  /\ Invoke("pause",
       IF PauseGuard(rec.recording) THEN "done"
       ELSE IF rec.isPaused THEN "resume" ELSE "pause")
  /\ rec' = [rec EXCEPT !.calls = @ + 1]
  /\ event' = Event("pause", "call", "ok", None)

\* recording.startAsync resolves (lines 65-69) or throws (logged).
PauseResume(h, ok) ==
  /\ handler[h].fn = "pause" /\ handler[h].pc = "resume"
  /\ Finish(h)
  /\ IF ok THEN SetState(WithInterval([rec EXCEPT !.isPaused = FALSE]))
           ELSE UNCHANGED rec
  /\ event' = Event("pause", "resume", IF ok THEN "ok" ELSE "threw",
                    Some(<<TRUE, FALSE>>))

\* recording.pauseAsync resolves (lines 72-76) or throws (logged).
PausePause(h, ok) ==
  /\ handler[h].fn = "pause" /\ handler[h].pc = "pause"
  /\ Finish(h)
  /\ IF ok THEN SetState(ClearInterval([rec EXCEPT !.isPaused = TRUE]))
           ELSE UNCHANGED rec
  /\ event' = Event("pause", "pause", IF ok THEN "ok" ELSE "threw",
                    Some(<<TRUE, TRUE>>))

\* Mutant: the guard forgets isProcessing.
StopGuardNoProcessing(recording, isProcessing) == recording = None

\* stopRecording, line 84: if (!recording || isProcessing) return
StopGuard(recording, isProcessing) == recording = None \/ isProcessing

StopInFlight(c) ==
  \E h \in 1..MaxCalls :
    handler[h].fn = "stop" /\ handler[h].pc # "done" /\ handler[h].recording = Some(c)

\* stopRecording up to its await of stopAndUnloadAsync (lines 84-99).
StopRecordingCall ==
  LET returns == StopGuard(rec.recording, rec.isProcessing)
      seen == IF rec.recording # None /\ StopInFlight(rec.recording[1])
                THEN {rec.recording[1]} ELSE {}
  IN /\ Invoke("stop", IF returns THEN "done" ELSE "unload")
     /\ rec' = IF returns
                 THEN [rec EXCEPT !.calls = @ + 1, !.reentered = @ \cup seen]
                 ELSE ClearInterval(
                        [rec EXCEPT !.calls = @ + 1, !.reentered = @ \cup seen,
                                    !.isProcessing = TRUE, !.isRecording = FALSE,
                                    !.isPaused = FALSE])
     /\ event' = Event("stop", "call", "ok",
                       IF returns THEN None ELSE Some(<<FALSE, FALSE>>))

\* recording.stopAndUnloadAsync resolves, or throws (catch: alert; finally).
StopUnload(h, ok) ==
  /\ handler[h].fn = "stop" /\ handler[h].pc = "unload"
  /\ IF ok
       THEN /\ handler' = [handler EXCEPT ![h].pc = "mode"]
            /\ UNCHANGED rec
       ELSE /\ Finish(h)
            /\ SetState([rec EXCEPT !.isProcessing = FALSE])
  /\ event' = Event("stop", "unload", IF ok THEN "ok" ELSE "threw", None)

\* setAudioModeAsync resolves: getURI, onRecordingComplete, the state is reset
\* (lines 104-110); or it throws (catch: alert); finally clears isProcessing.
StopFinish(h, ok, hasUri) ==
  /\ handler[h].fn = "stop" /\ handler[h].pc = "mode"
  /\ Finish(h)
  /\ IF ok
       THEN SetState(
              [rec EXCEPT !.completions[handler[h].recording[1]] =
                             IF hasUri THEN @ + 1 ELSE @,
                          !.recording = None, !.recordingDuration = 0,
                          !.isProcessing = FALSE])
       ELSE SetState([rec EXCEPT !.isProcessing = FALSE])
  /\ event' = Event("stop", "mode", IF ok THEN "ok" ELSE "threw", None)

\* An interval fires: setRecordingDuration(prev => prev + 1).
TickerFires ==
  /\ rec.mounted
  /\ rec.timers # {}
  /\ rec.recordingDuration < MaxDuration
  /\ rec' = [rec EXCEPT !.recordingDuration = @ + 1]
  /\ event' = NoEvent
  /\ UNCHANGED handler

\* The component is unmounted; it registers no cleanup.
Unmount ==
  /\ rec.mounted
  /\ rec' = [rec EXCEPT !.mounted = FALSE]
  /\ event' = NoEvent
  /\ UNCHANGED handler

\* ---------------------------------------------------------------- AudioPlayer
\* Calls of loadAudio / togglePlayback / stopPlayback made in one run.
MaxPlayerCalls == 2

\* togglePlayback, line 112: position >= duration - 100
EndWindow == 100

\* The durationMillis a status carries (0: not known) and its positionMillis.
FullDuration == 10 * EndWindow
DurationValues == {0, FullDuration}
PositionValues == {FullDuration - EndWindow - 1, FullDuration - EndWindow}

\* The component's hooks (lines 19-24) as last rendered, and the platform's
\* sound handles: loaded holds the handles createAsync made and nothing unloaded.
InitPlayer ==
  [mounted |-> TRUE,
   sound |-> None,
   isPlaying |-> FALSE,
   isLoading |-> FALSE,
   duration |-> 0,
   position |-> 0,
   error |-> None,
   loaded |-> {},
   made |-> 0,
   calls |-> 0]

\* A call in flight keeps the sound, isPlaying, position and duration of the
\* render it was made from; made: the handle its createAsync returned.
NoPlayerCall ==
  [fn |-> "none", pc |-> "done", sound |-> None, isPlaying |-> FALSE,
   position |-> 0, duration |-> 0, made |-> 0]

\* The last step of the player: the status a subscription update delivered, or
\* a step of a handler or the unmount.
NoPlayerEvent == None

\* The cleanup of the effect on [sound], lines 29-37, run with the sound of the
\* render it was registered in.
EffectCleanup(p) ==
  IF p.sound = None THEN p ELSE [p EXCEPT !.loaded = @ \ {p.sound[1]}]

\* A render after the hooks were set: when sound changed, the previous render's
\* cleanup runs.  Hooks are only set while the component is mounted.
Render(next) ==
  IF player.mounted
    THEN IF next.sound # player.sound
           THEN [next EXCEPT !.loaded = EffectCleanup([player EXCEPT !.loaded = next.loaded]).loaded]
           ELSE next
    ELSE [player EXCEPT !.loaded = next.loaded, !.made = next.made,
                        !.calls = next.calls]

PlayerInvoke(c) ==
  /\ player.mounted
  /\ player.calls < MaxPlayerCalls
  /\ pcall' = [pcall EXCEPT ![player.calls + 1] =
       IF c.pc = "done" THEN NoPlayerCall ELSE c]

PlayerFinish(h) == pcall' = [pcall EXCEPT ![h] = NoPlayerCall]

\* The closure of a handler created by the last render; only togglePlayback
\* past its `if (!sound)` reads isPlaying, position and duration.
Closure(fn, pc) ==
  IF pc = "status"
    THEN [fn |-> fn, pc |-> pc, sound |-> player.sound,
          isPlaying |-> player.isPlaying, position |-> player.position,
          duration |-> player.duration, made |-> 0]
    ELSE [NoPlayerCall EXCEPT !.fn = fn, !.pc = pc, !.sound = player.sound]

\* loadAudio up to its first await (lines 45-54): the previous sound's
\* unloadAsync when the closure holds a sound, else createAsync.
BeginLoad(fn) ==
  LET c == Closure(fn, IF player.sound = None THEN "create" ELSE "unload")
  IN /\ PlayerInvoke(c)
     /\ player' = [player EXCEPT !.isLoading = TRUE, !.error = None,
                                 !.calls = @ + 1]
     /\ pevent' = NoPlayerEvent

\* loadAudio called from the retry button.
LoadAudioCall == BeginLoad("load")

\* catch of loadAudio, lines 68-73, with its finally.
LoadFailed(p) == [p EXCEPT !.error = Some("Failed to load audio"), !.isLoading = FALSE]

\* sound.unloadAsync() of the previous sound resolves or throws.
LoadUnload(h, ok) ==
  /\ pcall[h].pc = "unload"
  /\ IF ok
       THEN /\ pcall' = [pcall EXCEPT ![h].pc = "create"]
            /\ player' = Render([player EXCEPT !.loaded = @ \ {pcall[h].sound[1]}])
       ELSE /\ PlayerFinish(h)
            /\ player' = Render(LoadFailed(player))
  /\ pevent' = NoPlayerEvent

\* Audio.Sound.createAsync resolves with a loaded handle, which setSound keeps
\* (lines 54-63), or throws.
LoadCreate(h, ok) ==
  /\ pcall[h].pc = "create"
  /\ IF ok
       THEN LET newSound == player.made + 1
            IN /\ pcall' = [pcall EXCEPT ![h].pc = "loadstatus", ![h].made = newSound]
               /\ player' = Render([player EXCEPT !.loaded = @ \cup {newSound},
                                                  !.made = newSound,
                                                  !.sound = Some(newSound)])
       ELSE /\ PlayerFinish(h)
            /\ player' = Render(LoadFailed(player))
  /\ pevent' = NoPlayerEvent

\* newSound.getStatusAsync resolves (lines 63-66) or throws; finally.
LoadStatus(h, ok, durationMillis) ==
  /\ pcall[h].pc = "loadstatus"
  /\ PlayerFinish(h)
  /\ player' = Render(
       IF ok
         THEN [player EXCEPT !.isLoading = FALSE,
                 !.duration = IF pcall[h].made \in player.loaded /\ durationMillis # 0
                                THEN durationMillis ELSE @]
         ELSE LoadFailed(player))
  /\ pevent' = NoPlayerEvent

\* Mutant: the end-of-playback test is missing.
AtEndNever(position, duration) == FALSE

\* togglePlayback, line 112
AtEnd(position, duration) == position >= duration - EndWindow

\* The platform call togglePlayback makes once getStatusAsync said isLoaded
\* (lines 108-116).
ToggleBranch(c) ==
  IF c.isPlaying THEN "pause"
  ELSE IF AtEnd(c.position, c.duration) THEN "seek" ELSE "play"

\* togglePlayback up to its first await: loadAudio when the closure holds no
\* sound (lines 100-103), else sound.getStatusAsync.
TogglePlaybackCall ==
  IF player.sound = None
    THEN BeginLoad("toggle")
    ELSE /\ PlayerInvoke(Closure("toggle", "status"))
         /\ player' = [player EXCEPT !.calls = @ + 1]
         /\ pevent' = NoPlayerEvent

\* catch of togglePlayback, lines 118-121.
ToggleFailed(p) == [p EXCEPT !.error = Some("Playback failed")]

\* sound.getStatusAsync resolves, loaded or not, or throws.
ToggleStatus(h, ok) ==
  /\ pcall[h].pc = "status"
  /\ LET c == pcall[h]
         isLoaded == c.sound[1] \in player.loaded
     IN /\ pcall' = [pcall EXCEPT ![h] =
               IF ok /\ isLoaded
                 THEN [NoPlayerCall EXCEPT !.fn = c.fn, !.pc = ToggleBranch(c),
                                           !.sound = c.sound]
                 ELSE NoPlayerCall]
        /\ player' = Render(IF ok THEN player ELSE ToggleFailed(player))
        /\ pevent' = NoPlayerEvent

\* sound.pauseAsync resolves or throws.
TogglePause(h, ok) ==
  /\ pcall[h].pc = "pause"
  /\ PlayerFinish(h)
  /\ player' = Render(IF ok THEN player ELSE ToggleFailed(player))
  /\ pevent' = NoPlayerEvent

\* sound.setPositionAsync(0) resolves, and playAsync is called, or throws.
ToggleSeek(h, ok) ==
  /\ pcall[h].pc = "seek"
  /\ pcall' = [pcall EXCEPT ![h] = IF ok THEN [@ EXCEPT !.pc = "play"] ELSE NoPlayerCall]
  /\ player' = Render(IF ok THEN player ELSE ToggleFailed(player))
  /\ pevent' = NoPlayerEvent

\* sound.playAsync resolves or throws.
TogglePlay(h, ok) ==
  /\ pcall[h].pc = "play"
  /\ PlayerFinish(h)
  /\ player' = Render(IF ok THEN player ELSE ToggleFailed(player))
  /\ pevent' = NoPlayerEvent

\* stopPlayback up to its await of stopAsync (line 137: if (!sound) return).
StopPlaybackCall ==
  LET c == Closure("stop", IF player.sound = None THEN "done" ELSE "stop")
  IN /\ PlayerInvoke(c)
     /\ player' = [player EXCEPT !.calls = @ + 1]
     /\ pevent' = NoPlayerEvent

\* sound.stopAsync resolves, and setPositionAsync(0) is called, or throws (logged).
StopStop(h, ok) ==
  /\ pcall[h].pc = "stop"
  /\ pcall' = [pcall EXCEPT ![h] = IF ok THEN [@ EXCEPT !.pc = "rewind"] ELSE NoPlayerCall]
  /\ pevent' = NoPlayerEvent
  /\ UNCHANGED player

\* sound.setPositionAsync(0) resolves (lines 142-143) or throws (logged).
StopRewind(h, ok) ==
  /\ pcall[h].pc = "rewind"
  /\ PlayerFinish(h)
  /\ player' = Render(IF ok THEN [player EXCEPT !.isPlaying = FALSE, !.position = 0]
                      ELSE player)
  /\ pevent' = NoPlayerEvent

\* The statuses the platform pushes to the subscription.
LoadedStatuses ==
  [isLoaded : {TRUE}, positionMillis : PositionValues, isPlaying : BOOLEAN,
   durationMillis : DurationValues, didJustFinish : BOOLEAN, error : {FALSE}]

UnloadedStatuses ==
  [isLoaded : {FALSE}, positionMillis : {0}, isPlaying : {FALSE},
   durationMillis : {0}, didJustFinish : {FALSE}, error : BOOLEAN]

\* Mutant: the reset on didJustFinish is missing.
ApplyStatusNoReset(p, status) ==
  IF status.isLoaded
    THEN [p EXCEPT !.position = status.positionMillis,
                   !.isPlaying = status.isPlaying,
                   !.duration = IF status.durationMillis # 0
                                  THEN status.durationMillis ELSE @]
    ELSE IF status.error THEN [p EXCEPT !.error = Some("Playback error occurred")]
         ELSE p

\* onPlaybackStatusUpdate, lines 76-96: the hooks after the batch of setters.
ApplyStatus(p, status) ==
  IF status.isLoaded
    THEN [p EXCEPT !.position = IF status.didJustFinish THEN 0
                                ELSE status.positionMillis,
                   !.isPlaying = IF status.didJustFinish THEN FALSE
                                 ELSE status.isPlaying,
                   !.duration = IF status.durationMillis # 0
                                  THEN status.durationMillis ELSE @]
    ELSE IF status.error THEN [p EXCEPT !.error = Some("Playback error occurred")]
         ELSE p

\* The platform calls onPlaybackStatusUpdate with the status of a sound the
\* player created: a loaded one or one that was unloaded.  (After the unmount
\* the callback's setters change nothing.)
StatusUpdate(status) ==
  /\ player.mounted
  /\ \E s \in 1..player.made : status.isLoaded = (s \in player.loaded)
  /\ player' = Render(ApplyStatus(player, status))
  /\ pevent' = Some(status)
  /\ UNCHANGED pcall

\* The component is torn down: the cleanup of the last render's effect runs.
PlayerUnmount ==
  /\ player.mounted
  /\ player' = [EffectCleanup(player) EXCEPT !.mounted = FALSE]
  /\ pevent' = NoPlayerEvent
  /\ UNCHANGED pcall

\* ---------------------------------------------------------------- specifications
Init ==
  /\ store = NoItem
  /\ task = [t \in Callers |-> IdleTask]
  /\ last = NoCall
  /\ now = 1
  /\ app = InitApp
  /\ hist = InitHistory
  /\ ledger = InitLedger
  /\ rec = InitRecorder
  /\ handler = [h \in 1..MaxCalls |-> NoHandler]
  /\ event = NoEvent
  /\ player = InitPlayer
  /\ pcall = [h \in 1..MaxPlayerCalls |-> NoPlayerCall]
  /\ pevent = NoPlayerEvent
  /\ settings = NoSettings
  /\ done = NoDone
  /\ remote = NoRemoteCall
  /\ titled = NoTitle

\* The StorageService used by one client that awaits each call before the next.
ClientSave == \E d \in Drafts : SaveRecordingCall("client", d)
ClientUpdate == \E id \in Ids, u \in Updates : UpdateRecordingCall("client", id, u)
ClientDelete == \E id \in Ids : DeleteRecordingCall("client", id)
ClientRead == StorageRead("client")
ClientWrite == StorageWrite("client")

StorageNext ==
  \/ Tick /\ UNCHANGED <<appVars, recVars, playerVars, faultVars, serviceVars>>
  \/ ClientSave /\ UNCHANGED <<appVars, recVars, playerVars, faultVars, serviceVars>>
  \/ ClientUpdate /\ UNCHANGED <<appVars, recVars, playerVars, faultVars, serviceVars>>
  \/ ClientDelete /\ UNCHANGED <<appVars, recVars, playerVars, faultVars, serviceVars>>
  \/ ClientRead /\ UNCHANGED <<appVars, recVars, playerVars, faultVars, serviceVars>>
  \/ ClientWrite /\ UNCHANGED <<appVars, recVars, playerVars, faultVars, serviceVars>>

StorageSpec == Init /\ [][StorageNext]_vars

\* The App shell with the record and history scenes: handlers run to their next
\* await, and the awaited calls resolve in any order.
AppNext ==
  \/ Tick /\ UNCHANGED <<appVars, recVars, playerVars, faultVars, serviceVars>>
  \/ (\E uri \in AudioUris : HandleRecordingComplete(uri)) /\ UNCHANGED <<recVars, playerVars, faultVars, serviceVars>>
  \/ (\E text \in Transcripts : TranscribeResolve(text)) /\ UNCHANGED <<recVars, playerVars, faultVars, serviceVars>>
  \/ TranscribeReject /\ UNCHANGED <<recVars, playerVars, faultVars, serviceVars>>
  \/ CompleteSaveRead /\ UNCHANGED <<recVars, playerVars, faultVars, serviceVars>>
  \/ CompleteSaveReturn /\ UNCHANGED <<recVars, playerVars, faultVars, serviceVars>>
  \/ (\E mode \in Modes : HandleEnhanceText(mode)) /\ UNCHANGED <<recVars, playerVars, faultVars, serviceVars>>
  \/ EnhanceResolve /\ UNCHANGED <<recVars, playerVars, faultVars, serviceVars>>
  \/ (\E text \in EditedTexts : HandleSaveTranscript(text)) /\ UNCHANGED <<recVars, playerVars, faultVars, serviceVars>>
  \/ HandleClearTranscript /\ UNCHANGED <<recVars, playerVars, faultVars, serviceVars>>
  \/ (\E i \in 1..MaxRecordings : HandleSelectRecording(i)) /\ UNCHANGED <<recVars, playerVars, faultVars, serviceVars>>
  \/ LoadRecordings /\ UNCHANGED <<recVars, playerVars, faultVars, serviceVars>>
  \/ (\E i \in 1..MaxRecordings : ConfirmDelete(i)) /\ UNCHANGED <<recVars, playerVars, faultVars, serviceVars>>
  \/ DeleteRead /\ UNCHANGED <<recVars, playerVars, faultVars, serviceVars>>
  \/ DeleteReturn /\ UNCHANGED <<recVars, playerVars, faultVars, serviceVars>>
  \/ DeleteReloaded /\ UNCHANGED <<recVars, playerVars, faultVars, serviceVars>>

AppSpec == Init /\ [][AppNext]_vars

\* The App without the handlers that edit the transcript on screen: the capture
\* flow of the record scene, the selection and delete of the history scene, and
\* the clearing of the transcript.
CaptureNext ==
  \/ Tick /\ UNCHANGED <<appVars, recVars, playerVars, faultVars, serviceVars>>
  \/ (\E uri \in AudioUris : HandleRecordingComplete(uri))
       /\ UNCHANGED <<recVars, playerVars, faultVars, serviceVars>>
  \/ (\E text \in Transcripts : TranscribeResolve(text))
       /\ UNCHANGED <<recVars, playerVars, faultVars, serviceVars>>
  \/ TranscribeReject /\ UNCHANGED <<recVars, playerVars, faultVars, serviceVars>>
  \/ CompleteSaveRead /\ UNCHANGED <<recVars, playerVars, faultVars, serviceVars>>
  \/ CompleteSaveReturn /\ UNCHANGED <<recVars, playerVars, faultVars, serviceVars>>
  \/ HandleClearTranscript /\ UNCHANGED <<recVars, playerVars, faultVars, serviceVars>>
  \/ (\E i \in 1..MaxRecordings : HandleSelectRecording(i))
       /\ UNCHANGED <<recVars, playerVars, faultVars, serviceVars>>
  \/ LoadRecordings /\ UNCHANGED <<recVars, playerVars, faultVars, serviceVars>>
  \/ (\E i \in 1..MaxRecordings : ConfirmDelete(i))
       /\ UNCHANGED <<recVars, playerVars, faultVars, serviceVars>>
  \/ DeleteRead /\ UNCHANGED <<recVars, playerVars, faultVars, serviceVars>>
  \/ DeleteReturn /\ UNCHANGED <<recVars, playerVars, faultVars, serviceVars>>
  \/ DeleteReloaded /\ UNCHANGED <<recVars, playerVars, faultVars, serviceVars>>

CaptureSpec == Init /\ [][CaptureNext]_vars

\* The capture flow and the history scene over an AsyncStorage whose getItem
\* and setItem can reject under the history screen's deleteRecording.
HistoryNext ==
  \/ Tick /\ UNCHANGED <<appVars, recVars, playerVars, faultVars, serviceVars>>
  \/ (\E uri \in AudioUris : HandleRecordingComplete(uri))
       /\ UNCHANGED <<recVars, playerVars, faultVars, serviceVars>>
  \/ (\E text \in Transcripts : TranscribeResolve(text))
       /\ UNCHANGED <<recVars, playerVars, faultVars, serviceVars>>
  \/ CompleteSaveRead /\ UNCHANGED <<recVars, playerVars, faultVars, serviceVars>>
  \/ CompleteSaveReturn /\ UNCHANGED <<recVars, playerVars, faultVars, serviceVars>>
  \/ (\E i \in 1..MaxRecordings : HandleSelectRecording(i))
       /\ UNCHANGED <<recVars, playerVars, faultVars, serviceVars>>
  \/ LoadRecordings /\ UNCHANGED <<recVars, playerVars, faultVars, serviceVars>>
  \/ (\E i \in 1..MaxRecordings : ConfirmDelete(i))
       /\ UNCHANGED <<recVars, playerVars, faultVars, serviceVars>>
  \/ DeleteRead /\ UNCHANGED <<recVars, playerVars, faultVars, serviceVars>>
  \/ DeleteReadRejected /\ UNCHANGED <<recVars, playerVars, faultVars, serviceVars>>
  \/ DeleteReturn /\ UNCHANGED <<recVars, playerVars, faultVars, serviceVars>>
  \/ DeleteWriteRejected /\ UNCHANGED <<recVars, playerVars, faultVars, serviceVars>>
  \/ DeleteReloaded /\ UNCHANGED <<recVars, playerVars, faultVars, serviceVars>>

HistorySpec == Init /\ [][HistoryNext]_vars

\* The AudioRecorder: its three handlers are invoked in any order, each running
\* to its next await; the platform calls resolve or throw.
PermissionOutcomes == {"granted", "denied", "throws"}

RecorderNext ==
  \/ StartRecordingCall /\ UNCHANGED <<storageVars, appVars, playerVars, faultVars, serviceVars>>
  \/ (\E h \in 1..MaxCalls, o \in PermissionOutcomes : StartPermission(h, o))
       /\ UNCHANGED <<storageVars, appVars, playerVars, faultVars, serviceVars>>
  \/ (\E h \in 1..MaxCalls, ok \in BOOLEAN : StartAudioMode(h, ok))
       /\ UNCHANGED <<storageVars, appVars, playerVars, faultVars, serviceVars>>
  \/ (\E h \in 1..MaxCalls, ok \in BOOLEAN : StartCreate(h, ok))
       /\ UNCHANGED <<storageVars, appVars, playerVars, faultVars, serviceVars>>
  \/ PauseRecordingCall /\ UNCHANGED <<storageVars, appVars, playerVars, faultVars, serviceVars>>
  \/ (\E h \in 1..MaxCalls, ok \in BOOLEAN : PauseResume(h, ok))
       /\ UNCHANGED <<storageVars, appVars, playerVars, faultVars, serviceVars>>
  \/ (\E h \in 1..MaxCalls, ok \in BOOLEAN : PausePause(h, ok))
       /\ UNCHANGED <<storageVars, appVars, playerVars, faultVars, serviceVars>>
  \/ StopRecordingCall /\ UNCHANGED <<storageVars, appVars, playerVars, faultVars, serviceVars>>
  \/ (\E h \in 1..MaxCalls, ok \in BOOLEAN : StopUnload(h, ok))
       /\ UNCHANGED <<storageVars, appVars, playerVars, faultVars, serviceVars>>
  \/ (\E h \in 1..MaxCalls, ok \in BOOLEAN, hasUri \in BOOLEAN : StopFinish(h, ok, hasUri))
       /\ UNCHANGED <<storageVars, appVars, playerVars, faultVars, serviceVars>>
  \/ TickerFires /\ UNCHANGED <<storageVars, appVars, playerVars, faultVars, serviceVars>>
  \/ Unmount /\ UNCHANGED <<storageVars, appVars, playerVars, faultVars, serviceVars>>

RecorderSpec == Init /\ [][RecorderNext]_vars

\* The AudioPlayer: its handlers are invoked in any order, each running to its
\* next await; the platform calls resolve or throw and the subscription
\* delivers any status.
PlayerNext ==
  \/ LoadAudioCall /\ UNCHANGED <<storageVars, appVars, recVars, faultVars, serviceVars>>
  \/ (\E h \in 1..MaxPlayerCalls, ok \in BOOLEAN : LoadUnload(h, ok))
       /\ UNCHANGED <<storageVars, appVars, recVars, faultVars, serviceVars>>
  \/ (\E h \in 1..MaxPlayerCalls, ok \in BOOLEAN : LoadCreate(h, ok))
       /\ UNCHANGED <<storageVars, appVars, recVars, faultVars, serviceVars>>
  \/ (\E h \in 1..MaxPlayerCalls, ok \in BOOLEAN, d \in DurationValues : LoadStatus(h, ok, d))
       /\ UNCHANGED <<storageVars, appVars, recVars, faultVars, serviceVars>>
  \/ TogglePlaybackCall /\ UNCHANGED <<storageVars, appVars, recVars, faultVars, serviceVars>>
  \/ (\E h \in 1..MaxPlayerCalls, ok \in BOOLEAN : ToggleStatus(h, ok))
       /\ UNCHANGED <<storageVars, appVars, recVars, faultVars, serviceVars>>
  \/ (\E h \in 1..MaxPlayerCalls, ok \in BOOLEAN : TogglePause(h, ok))
       /\ UNCHANGED <<storageVars, appVars, recVars, faultVars, serviceVars>>
  \/ (\E h \in 1..MaxPlayerCalls, ok \in BOOLEAN : ToggleSeek(h, ok))
       /\ UNCHANGED <<storageVars, appVars, recVars, faultVars, serviceVars>>
  \/ (\E h \in 1..MaxPlayerCalls, ok \in BOOLEAN : TogglePlay(h, ok))
       /\ UNCHANGED <<storageVars, appVars, recVars, faultVars, serviceVars>>
  \/ StopPlaybackCall /\ UNCHANGED <<storageVars, appVars, recVars, faultVars, serviceVars>>
  \/ (\E h \in 1..MaxPlayerCalls, ok \in BOOLEAN : StopStop(h, ok))
       /\ UNCHANGED <<storageVars, appVars, recVars, faultVars, serviceVars>>
  \/ (\E h \in 1..MaxPlayerCalls, ok \in BOOLEAN : StopRewind(h, ok))
       /\ UNCHANGED <<storageVars, appVars, recVars, faultVars, serviceVars>>
  \/ (\E status \in LoadedStatuses \cup UnloadedStatuses : StatusUpdate(status))
       /\ UNCHANGED <<storageVars, appVars, recVars, faultVars, serviceVars>>
  \/ PlayerUnmount /\ UNCHANGED <<storageVars, appVars, recVars, faultVars, serviceVars>>

PlayerSpec == Init /\ [][PlayerNext]_vars

\* The StorageService used by one client that awaits each call, over an
\* AsyncStorage whose getItem and setItem can reject and whose values can be
\* unparseable.
FaultDrafts ==
  { [title |-> <<"H", "i">>, audioUri |-> "file:a.m4a",
     transcription |-> [text |-> TextA], tags |-> None] }

FaultUpdates == { [title |-> Some(TitleX), transcription |-> None] }

FaultyNext ==
  \/ FaultyTick /\ UNCHANGED <<appVars, recVars, playerVars, serviceVars>>
  \/ (\E d \in FaultDrafts : FaultySave(d)) /\ UNCHANGED <<appVars, recVars, playerVars, serviceVars>>
  \/ (\E id \in Ids, u \in FaultUpdates : FaultyUpdate(id, u))
       /\ UNCHANGED <<appVars, recVars, playerVars, serviceVars>>
  \/ (\E id \in Ids : FaultyDelete(id)) /\ UNCHANGED <<appVars, recVars, playerVars, serviceVars>>
  \/ (\E ok \in BOOLEAN : FaultyRead(ok)) /\ UNCHANGED <<appVars, recVars, playerVars, serviceVars>>
  \/ (\E ok \in BOOLEAN : FaultyWrite(ok)) /\ UNCHANGED <<appVars, recVars, playerVars, serviceVars>>
  \/ (\E ok \in BOOLEAN : FaultyGetAll(ok)) /\ UNCHANGED <<appVars, recVars, playerVars, serviceVars>>
  \/ (\E id \in Ids, ok \in BOOLEAN : FaultyGetRecording(id, ok))
       /\ UNCHANGED <<appVars, recVars, playerVars, serviceVars>>
  \/ (\E k \in SettingKeys, v \in SettingValues : SetSettingCall(k, v))
       /\ UNCHANGED <<appVars, recVars, playerVars, serviceVars>>
  \/ (\E ok \in BOOLEAN : SetSettingRead(ok)) /\ UNCHANGED <<appVars, recVars, playerVars, serviceVars>>
  \/ (\E ok \in BOOLEAN : SetSettingWrite(ok)) /\ UNCHANGED <<appVars, recVars, playerVars, serviceVars>>
  \/ (\E ok \in BOOLEAN : ClearAllData(ok)) /\ UNCHANGED <<appVars, recVars, playerVars, serviceVars>>
  \/ StoreCorrupted /\ UNCHANGED <<appVars, recVars, playerVars, serviceVars>>

\* As Init; the history of saves (last.saves) is not kept over this store.
FaultyInit ==
  /\ store = NoItem
  /\ task = [t \in Callers |-> IdleTask]
  /\ last = [NoCall EXCEPT !.saves = None]
  /\ now = 1
  /\ app = InitApp
  /\ hist = InitHistory
  /\ ledger = InitLedger
  /\ rec = InitRecorder
  /\ handler = [h \in 1..MaxCalls |-> NoHandler]
  /\ event = NoEvent
  /\ player = InitPlayer
  /\ pcall = [h \in 1..MaxPlayerCalls |-> NoPlayerCall]
  /\ pevent = NoPlayerEvent
  /\ settings = NoSettings
  /\ done = NoDone
  /\ remote = NoRemoteCall
  /\ titled = NoTitle

FaultySpec == FaultyInit /\ [][FaultyNext]_vars

\* The remote TranscriptionService: enhanceText is called by one client that
\* awaits each call; the fetch and the response's json() settle in any way.
RemoteNext ==
  \/ (\E text \in RemoteTexts, mode \in Modes : RemoteEnhanceCall(text, mode))
       /\ UNCHANGED <<storageVars, appVars, recVars, playerVars, faultVars>>
  \/ (\E o \in FetchOutcomes : RemoteFetch(o))
       /\ UNCHANGED <<storageVars, appVars, recVars, playerVars, faultVars>>
  \/ (\E parsed \in BOOLEAN : RemoteErrorJson(parsed))
       /\ UNCHANGED <<storageVars, appVars, recVars, playerVars, faultVars>>
  \/ (\E body \in ResponseBodies : RemoteResultJson(body))
       /\ UNCHANGED <<storageVars, appVars, recVars, playerVars, faultVars>>

RemoteSpec == Init /\ [][RemoteNext]_vars

\* generateTitle applied to one text, with or without a terminator, on either
\* side of the 47th and the 50th character.
TitleTexts ==
  {TitleText(lead, letters, gap, term, tail) :
     lead \in 0..1, letters \in 0..MaxLetters, gap \in 0..1,
     term \in {<<>>} \cup {<<c>> : c \in Terminators}, tail \in TitleTails}

TitleNext ==
  \/ GenerateTitleCall
       /\ UNCHANGED <<storageVars, appVars, recVars, playerVars, faultVars>>

\* As Init, with the text generateTitle will be given.
TitleInit ==
  /\ store = NoItem
  /\ task = [t \in Callers |-> IdleTask]
  /\ last = NoCall
  /\ now = 1
  /\ app = InitApp
  /\ hist = InitHistory
  /\ ledger = InitLedger
  /\ rec = InitRecorder
  /\ handler = [h \in 1..MaxCalls |-> NoHandler]
  /\ event = NoEvent
  /\ player = InitPlayer
  /\ pcall = [h \in 1..MaxPlayerCalls |-> NoPlayerCall]
  /\ pevent = NoPlayerEvent
  /\ settings = NoSettings
  /\ done = NoDone
  /\ remote = NoRemoteCall
  /\ titled \in {[NoTitle EXCEPT !.text = t] : t \in TitleTexts}

TitleSpec == TitleInit /\ [][TitleNext]_vars

\* The StorageService used by one client that saves, deletes and searches,
\* awaiting each call; only the getItem of a search can reject.
SearchNext ==
  \/ FaultyTick /\ UNCHANGED <<appVars, recVars, playerVars, serviceVars>>
  \/ (\E d \in SearchDrafts : FaultySave(d))
       /\ UNCHANGED <<appVars, recVars, playerVars, serviceVars>>
  \/ (\E id \in Ids : FaultyDelete(id))
       /\ UNCHANGED <<appVars, recVars, playerVars, serviceVars>>
  \/ FaultyRead(TRUE) /\ UNCHANGED <<appVars, recVars, playerVars, serviceVars>>
  \/ FaultyWrite(TRUE) /\ UNCHANGED <<appVars, recVars, playerVars, serviceVars>>
  \/ (\E q \in Queries, ok \in BOOLEAN : SearchRecordings(q, ok))
       /\ UNCHANGED <<appVars, recVars, playerVars, serviceVars>>

SearchSpec == FaultyInit /\ [][SearchNext]_vars

\* The settings map used by one client that awaits each call, next to a
\* recordings list the same client saves to; null is among the values set.
SettingsNext ==
  \/ (\E k \in SettingKeys, v \in SettingValues \cup {Null} : SetSettingCall(k, v))
       /\ UNCHANGED <<appVars, recVars, playerVars, serviceVars>>
  \/ (\E ok \in BOOLEAN : SetSettingRead(ok))
       /\ UNCHANGED <<appVars, recVars, playerVars, serviceVars>>
  \/ (\E ok \in BOOLEAN : SetSettingWrite(ok))
       /\ UNCHANGED <<appVars, recVars, playerVars, serviceVars>>
  \/ (\E k \in SettingKeys, d \in SettingValues, ok \in BOOLEAN : GetSetting(k, d, ok))
       /\ UNCHANGED <<appVars, recVars, playerVars, serviceVars>>
  \/ (\E d \in FaultDrafts : FaultySave(d))
       /\ UNCHANGED <<appVars, recVars, playerVars, serviceVars>>
  \/ (\E ok \in BOOLEAN : FaultyRead(ok))
       /\ UNCHANGED <<appVars, recVars, playerVars, serviceVars>>
  \/ (\E ok \in BOOLEAN : FaultyWrite(ok))
       /\ UNCHANGED <<appVars, recVars, playerVars, serviceVars>>
  \/ (\E ok \in BOOLEAN : ClearAllData(ok))
       /\ UNCHANGED <<appVars, recVars, playerVars, serviceVars>>
  \/ StoreCorrupted /\ UNCHANGED <<appVars, recVars, playerVars, serviceVars>>

SettingsSpec == FaultyInit /\ [][SettingsNext]_vars

\* ================================================================ claims
\* ---------------------------------------------------------------- StorageService
Persisted == GetAllRecordings(store)

Reverse(s) == [i \in 1..Len(s) |-> s[Len(s) + 1 - i]]

RemoveAt(s, i) == [j \in 1..(Len(s) - 1) |-> IF j < i THEN s[j] ELSE s[j + 1]]

HasId(recordings, id) == \E i \in 1..Len(recordings) : recordings[i].id = id

\* C1: no two records of the persisted list have the same id, whatever sequence
\* of saveRecording, updateRecording and deleteRecording calls produced it, two
\* saves at the same clock reading included.
C1_UniqueIds ==
  \A i, j \in 1..Len(Persisted) : i # j => Persisted[i].id # Persisted[j].id

\* C3: from an empty store, after N saves that returned and no other mutation,
\* getAllRecordings gives exactly those N records, the most recently saved first.
C3_SavesNewestFirst ==
  last.saves # None => Persisted = Reverse(last.saves[1])

C3_Witness ==
  /\ last.saves # None
  /\ Len(last.saves[1]) = MaxRecordings
  /\ last.saves[1][1] # last.saves[1][2]

\* C4: right after saveRecording(draft) returned r, getRecording(r.id) gives a
\* record with the draft's title, audioUri, transcription and tags and with the
\* id, createdAt and updatedAt the save assigned.
C4_SaveThenGet ==
  last.op = "save" =>
    LET r == last.ret[1]
        draft == last.arg[1]
        got == GetRecording(store, r.id)
    IN /\ got # None
       /\ got[1].title = draft.title
       /\ got[1].audioUri = draft.audioUri
       /\ got[1].transcription = draft.transcription
       /\ got[1].tags = draft.tags
       /\ got[1].id = r.id
       /\ got[1].createdAt = r.createdAt
       /\ got[1].updatedAt = r.updatedAt

C4_Witness ==
  /\ last.op = "save"
  /\ Len(Persisted) = 2
  /\ Persisted[1].id = Persisted[2].id
  /\ Persisted[1].title # Persisted[2].title

\* C5: deleteRecording(id) with id in the list removes exactly one record: the
\* list is one shorter, the other records keep content and order, and
\* getRecording(id) then gives null.
C5_DeleteRemovesExactlyOne ==
  (last.op = "delete" /\ HasId(last.read, last.id)) =>
    /\ Len(Persisted) = Len(last.read) - 1
    /\ \E i \in 1..Len(last.read) :
         last.read[i].id = last.id /\ Persisted = RemoveAt(last.read, i)
    /\ GetRecording(store, last.id) = None

\* C6 as stated: deleteRecording(id) with id not in the list returns false and
\* leaves the list as it was.
C6_DeleteAbsentReturnsFalse ==
  (last.op = "delete" /\ ~HasId(last.read, last.id)) =>
    /\ last.ret = Some(FALSE)
    /\ Persisted = last.read

\* C6 amended: deleteRecording(id) with id not in the list returns true and
\* leaves the records of the list as they were.
C6_DeleteAbsentReturnsTrue ==
  (last.op = "delete" /\ ~HasId(last.read, last.id)) =>
    /\ last.ret = Some(TRUE)
    /\ Persisted = last.read

C6_Witness ==
  /\ last.op = "delete"
  /\ ~HasId(last.read, last.id)
  /\ Len(last.read) = 2

TitleOnly(u) == u.title # None /\ u.transcription = None

UpdatedTitle == last.op = "update" /\ last.ret # None /\ TitleOnly(last.arg[1])

\* updateRecording(id, {title: X}) changed nothing but the title and updatedAt of
\* the one record it found.
TitleUpdateFrame ==
  LET i == FindIndex(last.read, last.id)
      before == last.read[i]
      after == Persisted[i]
  IN /\ Len(Persisted) = Len(last.read)
     /\ \A j \in 1..Len(last.read) : j # i => Persisted[j] = last.read[j]
     /\ after.id = before.id
     /\ after.audioUri = before.audioUri
     /\ after.transcription = before.transcription
     /\ after.createdAt = before.createdAt
     /\ after.tags = before.tags
     /\ after.title = last.arg[1].title[1]

\* C7 as stated: updateRecording(id, {title: X}) on an existing record leaves
\* every other field and every other record as it was, and the record's
\* updatedAt is strictly later than before the call.
C7_UpdateStrictlyLater ==
  UpdatedTitle =>
    /\ TitleUpdateFrame
    /\ LET i == FindIndex(last.read, last.id)
       IN Persisted[i].updatedAt.ms > last.read[i].updatedAt.ms

\* C7 amended: the same frame, and the record's updatedAt is the clock reading
\* the call took, which is not earlier than the updatedAt before the call.
C7_UpdateNotEarlier ==
  UpdatedTitle =>
    /\ TitleUpdateFrame
    /\ LET i == FindIndex(last.read, last.id)
       IN /\ Persisted[i].updatedAt = DateOf(last.clock)
          /\ Persisted[i].updatedAt.ms >= last.read[i].updatedAt.ms

C7_Witness ==
  /\ UpdatedTitle
  /\ Len(Persisted) = 2
  /\ LET i == FindIndex(last.read, last.id)
     IN /\ Persisted[i].title # last.read[i].title
        /\ Persisted[i].updatedAt = last.read[i].updatedAt

\* ---------------------------------------------------------------- App shell
\* C2: no mutation is lost under any interleaving of the UI's storage calls:
\* every recording whose saveRecording returned and that was not deleted is in
\* the persisted list, and every deleted recording is not.
C2_NoLostMutation ==
  /\ ledger.present \subseteq PersistedIds
  /\ ledger.absent \cap PersistedIds = {}

\* C8: once the user saved an edited transcript, or an enhancement was applied,
\* while a persisted recording was selected, that recording's persisted
\* transcription.text is the new text.
C8_EditIsPersisted ==
  (ledger.edited # None /\ HasId(Persisted, ledger.edited[1].id)) =>
    GetRecording(store, ledger.edited[1].id)[1].transcription.text
      = ledger.edited[1].text

\* ---------------------------------------------------------------- AudioRecorder
\* C9: when stopRecording is invoked again on a capture while a stopRecording on
\* it has not finished, onRecordingComplete is invoked at most once for that
\* capture.
C9_CompleteAtMostOnce ==
  \A c \in 1..MaxCalls : rec.completions[c] <= 1

C9_Witness ==
  \E c \in rec.reentered : rec.completions[c] = 1

\* C10: whenever the recorder is Idle, Paused or unmounted no ticker interval is
\* active, and at most one ticker interval is active at any time.
C10_TickerCancelled ==
  /\ (~rec.mounted \/ ~rec.isRecording \/ rec.isPaused) => rec.timers = {}
  /\ Cardinality(rec.timers) <= 1

\* The hooks and the interval table, without the bookkeeping of calls.
RecorderState(r) ==
  <<r.recording, r.isRecording, r.isPaused, r.recordingDuration, r.isProcessing,
    r.durationInterval, r.timers>>

RecorderIdle(r) ==
  r.recording = None /\ ~r.isRecording /\ ~r.isPaused /\ ~r.isProcessing

\* The last step was the end of a stopRecording that had passed its guard.
StopFinished ==
  /\ event.fn = "stop"
  /\ \/ event.step = "mode"
     \/ event.step = "unload" /\ event.outcome = "threw"

\* C11: while the recorder is mounted, isPaused implies isRecording, isRecording
\* implies a capture is held, and right after a stopRecording finished, with
\* success or with a failure, the recorder is Idle: not recording, not paused,
\* not processing and holding no capture.
C11_StateMachine ==
  rec.mounted =>
    /\ rec.isPaused => rec.isRecording
    /\ rec.isRecording => rec.recording # None
    /\ StopFinished => RecorderIdle(rec)

\* C12: a pauseRecording call made while no capture is held changes no hook,
\* starts and stops no ticker, leaves nothing in flight and does not call
\* onRecordingStateChange.
C12_PauseWhileIdleIsNoOp ==
  [][(event'.fn = "pause" /\ event'.step = "call" /\ rec.recording = None)
       => /\ RecorderState(rec') = RecorderState(rec)
          /\ handler' = handler
          /\ event'.notified = None]_vars

C12_Witness ==
  /\ event.fn = "pause" /\ event.step = "call"
  /\ rec.recording = None
  /\ rec.mounted
  /\ \E c \in 1..MaxCalls : rec.completions[c] = 1

\* C13: no step of startRecording, pauseRecording or stopRecording lets an error
\* out to the caller, every step whose platform call threw shows an alert, and a
\* denied microphone permission shows an alert, changes nothing of the recorder
\* and does not call onRecordingStateChange.
C13_FailuresAlert ==
  [][/\ ~event'.raised
     /\ event'.outcome = "threw" => event'.alert
     /\ event'.outcome = "denied" =>
          /\ event'.alert
          /\ event'.notified = None
          /\ RecorderState(rec') = RecorderState(rec)]_vars

\* ---------------------------------------------------------------- AudioPlayer
\* C14: once the player is torn down no sound handle it created is loaded,
\* whatever loadAudio calls were in flight at the teardown, and at no time are
\* two of its sound handles loaded.
C14_NoSoundLeft ==
  /\ ~player.mounted => player.loaded = {}
  /\ Cardinality(player.loaded) <= 1

\* A togglePlayback call failed: its catch set the error.
ToggleThrew(h) ==
  /\ pcall'[h] = NoPlayerCall
  /\ player.mounted => player'.error = Some("Playback failed")

\* C15: a togglePlayback call made with no sound goes on to load the resource;
\* made with a sound that is loaded, it pauses when the player was playing, and
\* otherwise plays, after a seek to 0 exactly when the position was within
\* 100 ms of the duration (unless one of its platform calls throws).
C15_TogglePlayback ==
  [][\A h \in 1..MaxPlayerCalls :
       /\ (pcall[h].fn = "none" /\ pcall'[h].fn = "toggle") =>
            IF player.sound = None
              THEN pcall'[h].pc = "create" /\ player'.isLoading
              ELSE /\ pcall'[h].pc = "status"
                   /\ pcall'[h].sound = player.sound
                   /\ pcall'[h].isPlaying = player.isPlaying
                   /\ pcall'[h].position = player.position
                   /\ pcall'[h].duration = player.duration
       /\ (pcall[h].fn = "toggle" /\ pcall[h].pc = "create"
             /\ pcall'[h].pc = "loadstatus") =>
            /\ pcall'[h].made \in player'.loaded
            /\ player.mounted => player'.sound = Some(pcall'[h].made)
       /\ (pcall[h].fn = "toggle" /\ pcall[h].pc = "status"
             /\ pcall[h].sound[1] \in player.loaded /\ pcall'[h] # pcall[h]) =>
            \/ ToggleThrew(h)
            \/ /\ pcall'[h].sound = pcall[h].sound
               /\ pcall'[h].pc =
                    IF pcall[h].isPlaying THEN "pause"
                    ELSE IF pcall[h].position >= pcall[h].duration - 100
                           THEN "seek" ELSE "play"
       /\ (pcall[h].fn = "toggle" /\ pcall[h].pc = "seek"
             /\ pcall'[h] # pcall[h]) =>
            \/ ToggleThrew(h)
            \/ pcall'[h] = [pcall[h] EXCEPT !.pc = "play"]]_vars

C15_Witness ==
  \E h \in 1..MaxPlayerCalls :
    /\ pcall[h].fn = "toggle" /\ pcall[h].pc = "seek"
    /\ pcall[h].sound = player.sound
    /\ pcall[h].sound[1] \in player.loaded
    /\ ~player.isPlaying
    /\ player.duration = FullDuration
    /\ player.position = FullDuration - EndWindow

\* C16: right after a status update that reported didJustFinish the player is
\* stopped, isPlaying false and position 0, whatever position and playing flag
\* that status carried.
C16_FinishResets ==
  (pevent # None /\ pevent[1].didJustFinish) =>
    ~player.isPlaying /\ player.position = 0

C16_Witness ==
  /\ pevent # None
  /\ pevent[1].didJustFinish
  /\ pevent[1].isPlaying
  /\ pevent[1].positionMillis = FullDuration - EndWindow - 1

\* ---------------------------------------------------------------- StorageService over a store that can fail
\* C17: when the setItem of a call rejects, saveRecording and updateRecording
\* raise to their caller, deleteRecording returns false, and the persisted list
\* is what it was when the call was made.
C17_WriteFailure ==
  (done.writeFailed /\ done.op \in {"save", "update", "delete"}) =>
    /\ done.op \in {"save", "update"} => done.outcome = "raised"
    /\ done.op = "delete" => done.outcome = "returned" /\ done.ret = Some(FALSE)
    /\ store = done.before[1]

C17_Witness ==
  /\ done.writeFailed
  /\ done.op = "delete"
  /\ ~done.readFailed
  /\ Len(Persisted) = 2
  /\ HasId(Persisted, done.id)

\* C18: getAllRecordings and getRecording always return: getAllRecordings gives
\* the empty list when nothing is persisted, when the read fails and when the
\* persisted value does not parse, and the persisted list otherwise;
\* getRecording(id) gives a persisted record with that id, or null, and null only
\* when the read failed or no persisted record has the id.
C18_ReadsNeverRaise ==
  /\ done.op = "getAll" =>
       /\ done.outcome = "returned"
       /\ done.ret # None
       /\ (done.readFailed \/ store.kind # "json") => done.ret[1] = <<>>
       /\ (~done.readFailed /\ store.kind = "json") => done.ret[1] = Persisted
  /\ done.op = "get" =>
       /\ done.outcome = "returned"
       /\ done.ret # None =>
            /\ done.ret[1].id = done.id
            /\ \E i \in 1..Len(Persisted) : Persisted[i] = done.ret[1]
       /\ done.ret = None <=> (done.readFailed \/ ~HasId(Persisted, done.id))

C18_Witness ==
  /\ done.op = "getAll"
  /\ done.readFailed
  /\ Len(Persisted) = 2

\* The last call repeated the call before it, and both went through.
Retried ==
  /\ done.repeat
  /\ WentThrough(done)
  /\ done.op \in {"update", "delete", "setSetting", "clear"}

\* C19 as stated: updateRecording(id, fields), deleteRecording(id),
\* setSetting(key, value) or clearAllData() made twice in a row with the same
\* arguments leaves both persisted entries as the first call left them.
C19_RetryIdempotent ==
  Retried => <<store, settings>> = done.before

\* C19 amended: the same for deleteRecording, setSetting and clearAllData; a
\* repeated updateRecording leaves them as the first call left them except for
\* the updatedAt of the record, which is the one the second call returned and is
\* not earlier than the first call's.
C19_RetryIdempotentButUpdatedAt ==
  Retried =>
    /\ settings = done.before[2]
    /\ IF done.op = "update" /\ done.ret # None
         THEN LET before == GetAllRecordings(done.before[1])
                  i == FindIndex(before, done.id)
              IN /\ Persisted = [before EXCEPT ![i].updatedAt = done.ret[1].updatedAt]
                 /\ done.ret[1].updatedAt.ms >= before[i].updatedAt.ms
         ELSE store = done.before[1]

C19_Witness ==
  /\ Retried
  /\ done.op = "update"
  /\ done.ret # None
  /\ Len(Persisted) = 2
  /\ store # done.before[1]

\* ---------------------------------------------------------------- App shell: the capture flow
\* C20: the App starts a saveRecording only when the transcribeAudio of a
\* handleRecordingComplete resolved, once per handleRecordingComplete; a
\* handleRecordingComplete whose transcribeAudio rejected ends with no
\* saveRecording started and the persisted list as it was; and the persisted
\* list only grows when such a saveRecording writes.
C20_SavedOnlyWhenTranscribed ==
  [][/\ (task["app"].pc = "idle" /\ task'["app"].pc # "idle") =>
          /\ app.complete.pc = "transcribing" /\ app'.complete.pc = "saving"
          /\ task'["app"].op = "save"
          /\ app'.currentTranscription = Some(task'["app"].draft[1].transcription)
     /\ app.complete.pc = "saving" => app'.complete.pc \in {"saving", "idle"}
     /\ (app.complete.pc = "transcribing" /\ app'.complete.pc = "idle") =>
          /\ task'["app"] = IdleTask
          /\ store' = store
     /\ Len(store'.val) > Len(store.val) =>
          /\ app.complete.pc = "saving" /\ app'.complete.pc = "idle"
          /\ Len(store'.val) = Len(task["app"].recordings) + 1]_vars

C20_Witness ==
  /\ app.complete.pc = "idle"
  /\ ~app.isProcessing
  /\ app.currentAudioUri # None
  /\ app.currentTranscription = None
  /\ app.selectedRecording = None
  /\ Len(Persisted) = 1

\* ---------------------------------------------------------------- TranscriptionService
\* C21: the remote enhanceText never raises to its caller; when the fetch
\* rejected, the response was not ok, its body did not parse or carried no
\* usable first choice (no choices, no message, a null or empty content), the
\* call returns the text it was given, unchanged.
C21_EnhanceNeverRaises ==
  remote.pc = "done" =>
    /\ remote.outcome = "returned"
    /\ remote.ret # None
    /\ remote.via # "content" => remote.ret = Some(remote.text)
    /\ remote.via = "content" => remote.ret[1] \in EnhancedContents

\* A call on a non-empty text whose response was not ok has returned its text.
C21_Witness ==
  /\ remote.pc = "done" /\ remote.via = "status"
  /\ remote.text = TextA /\ remote.ret = Some(TextA)

\* ---------------------------------------------------------------- generateTitle
\* The position (from 1) of the first terminator of text, 0 when it has none.
FirstTerminator(text) ==
  IF \E i \in 1..Len(text) : text[i] \in Terminators
    THEN CHOOSE i \in 1..Len(text) :
           /\ text[i] \in Terminators
           /\ \A j \in 1..(i - 1) : text[j] \notin Terminators
    ELSE 0

\* The first sentence of text: what precedes its first terminator (all of it
\* when it has none).
FirstSentence(text) ==
  IF FirstTerminator(text) = 0 THEN text
  ELSE SubSeq(text, 1, FirstTerminator(text) - 1)

\* t is s without its leading and trailing whitespace.
IsTrimOf(t, s) ==
  \E a \in 0..Len(s) : \E b \in a..Len(s) :
    /\ t = SubSeq(s, a + 1, b)
    /\ \A i \in 1..a : s[i] \in Whitespace
    /\ \A i \in (b + 1)..Len(s) : s[i] \in Whitespace
    /\ t # <<>> => (t[1] \notin Whitespace /\ t[Len(t)] \notin Whitespace)

Blank(s) == \A i \in 1..Len(s) : s[i] \in Whitespace

\* s without its leading and trailing whitespace has more than n characters.
TrimmedLonger(s, n) ==
  \E a, b \in 1..Len(s) :
    s[a] \notin Whitespace /\ s[b] \notin Whitespace /\ b - a + 1 > n

Ellipsis == <<".", ".", ".">>

\* The first terminator of the text is before position 50 (counted from 0).
TerminatorBeforeMax(text) ==
  FirstTerminator(text) # 0 /\ FirstTerminator(text) - 1 < TitleMaxLen

\* C22 as stated: for a text with a terminator before position 50 the title is
\* the trimmed first sentence.
C22_TitleIsFirstSentence ==
  (titled.called /\ TerminatorBeforeMax(titled.text)) =>
    IsTrimOf(titled.title, FirstSentence(titled.text))

\* C22 amended: for a text with a terminator before position 50 and something
\* other than whitespace before its first terminator, the title is the trimmed
\* first sentence.
C22_TitleIsNonEmptyFirstSentence ==
  (/\ titled.called
   /\ TerminatorBeforeMax(titled.text)
   /\ ~Blank(FirstSentence(titled.text))) =>
    /\ IsTrimOf(titled.title, FirstSentence(titled.text))
    /\ titled.title # <<>>

\* A sentence with whitespace on both sides, followed by more text.
C22_Witness ==
  /\ titled.called
  /\ titled.text = TitleText(1, 3, 1, <<"!">>, <<" ", "b", ".">>)
  /\ titled.title = <<"a", "a", "a">>

\* C23 as stated: for a text longer than 47 characters with no terminator before
\* position 50, the title is its first 47 characters followed by "...".
C23_LongTextIsCut ==
  (/\ titled.called
   /\ Len(titled.text) > TitleCut
   /\ ~TerminatorBeforeMax(titled.text)) =>
    titled.title = SubSeq(titled.text, 1, TitleCut) \o Ellipsis

\* C23 amended: for a text longer than 47 characters whose trimmed first
\* sentence is empty or longer than 50 characters, the title is its first 47
\* characters followed by "..."; no title is longer than 50 characters.
C23_LongSentenceIsCut ==
  titled.called =>
    /\ Len(titled.title) <= TitleMaxLen
    /\ (/\ Len(titled.text) > TitleCut
        /\ \/ Blank(FirstSentence(titled.text))
           \/ TrimmedLonger(FirstSentence(titled.text), TitleMaxLen)) =>
         titled.title = SubSeq(titled.text, 1, TitleCut) \o Ellipsis

\* A text of 52 letters without terminator.
C23_Witness ==
  /\ titled.called
  /\ titled.text = Repeat("a", MaxLetters)
  /\ titled.title = Repeat("a", TitleCut) \o Ellipsis

\* ---------------------------------------------------------------- searchRecordings
\* a and b are the same character up to case.
SameLetter(a, b) ==
  \/ a = b
  \/ \E k \in 1..Len(UpperCase) : {a, b} = {UpperCase[k], LowerCase[k]}

\* text contains query as a substring, case ignored.
ContainsIgnoringCase(text, query) ==
  \E i \in 0..(Len(text) - Len(query)) :
    \A j \in 1..Len(query) : SameLetter(text[i + j], query[j])

Matches(r, query) ==
  \/ ContainsIgnoringCase(r.title, query)
  \/ ContainsIgnoringCase(r.transcription.text, query)
  \/ r.tags # None /\ \E k \in 1..Len(r.tags[1]) : ContainsIgnoringCase(r.tags[1][k], query)

\* C24: a searchRecordings(query) whose read went through returns the persisted
\* recordings whose title, transcript text or some tag contains the query, case
\* ignored: all of them, nothing else, in the order of the persisted list.
C24_SearchReturnsMatchesInOrder ==
  (done.op = "search" /\ ~done.readFailed) =>
    LET found == done.ret[1]
        query == done.arg[1]
        hits == {i \in 1..Len(Persisted) : Matches(Persisted[i], query)}
    IN /\ done.outcome = "returned"
       /\ Len(found) = Cardinality(hits)
       /\ \A i \in hits : found[Cardinality({j \in hits : j <= i})] = Persisted[i]

\* Of two persisted recordings the search found the second one only, by a tag
\* whose case differs from the query's.
C24_Witness ==
  /\ done.op = "search" /\ ~done.readFailed /\ done.arg = Some(<<"w">>)
  /\ Len(Persisted) = 2
  /\ done.ret = Some(<<Persisted[2]>>)

\* ---------------------------------------------------------------- settings
\* The property of the persisted settings object under key: None when the entry
\* is missing or the object has no such property.
Stored(entry, key) == IF entry.kind = "json" THEN entry.val[key] ELSE None

\* What a setSetting that returned did: its key has its value, the other keys
\* have what they had, the recordings entry is as it was; a setSetting that
\* raised left both entries as they were.
SetSettingFrame ==
  (done.op = "setSetting" /\ done.outcome = "pending") =>
    LET key == done.arg[1][1]
        value == done.arg[1][2]
    IN /\ store' = store
       /\ done'.outcome = "raised" => settings' = settings
       /\ done'.outcome = "returned" =>
            /\ settings'.kind = "json"
            /\ settings'.val[key] = Some(value)
            /\ \A k \in SettingKeys \ {key} : settings'.val[k] = Stored(settings, k)

\* C25 as stated: getSetting(key, default) returns the value setSetting wrote
\* under key last, and the default only if the key is absent or the settings
\* entry does not parse; setSetting changes no other key and not the recordings.
C25_GetReturnsSet ==
  [][/\ (done'.op = "getSetting" /\ done' # done) =>
          LET key == done'.arg[1][1]
              defaultValue == done'.arg[1][2]
          IN done'.ret =
               IF settings.kind = "garbage" \/ Stored(settings, key) = None
                 THEN Some(defaultValue) ELSE Stored(settings, key)
     /\ SetSettingFrame]_vars

\* C25 amended: getSetting(key, default) returns the value setSetting wrote
\* under key last unless that value is null, and the default if the key is
\* absent, its value is null, or the settings entry cannot be read or parsed;
\* setSetting changes no other key and not the recordings.
C25_GetReturnsSetUnlessNull ==
  [][/\ (done'.op = "getSetting" /\ done' # done) =>
          LET key == done'.arg[1][1]
              defaultValue == done'.arg[1][2]
          IN done'.ret =
               IF \/ done'.readFailed
                  \/ settings.kind = "garbage"
                  \/ Stored(settings, key) \in {None, Some(Null)}
                 THEN Some(defaultValue) ELSE Stored(settings, key)
     /\ SetSettingFrame]_vars

\* getSetting returned a value that is not the default it was given, with the
\* other key set and a recording persisted.
C25_Witness ==
  /\ done.op = "getSetting" /\ done.arg = Some(<<"theme", "dark">>)
  /\ done.ret = Some("light")
  /\ settings.kind = "json" /\ settings.val["language"] = Some("dark")
  /\ Len(Persisted) = 1

\* ---------------------------------------------------------------- frame of the mutations
\* C26: once saveRecording, updateRecording(id, ...) or deleteRecording(id) has
\* completed, every recording that was persisted when it was called, other than
\* those with the id it was given, is still persisted with the same content,
\* also when the read inside the operation failed or gave unparseable data.
C26_OthersKept ==
  (done.op \in {"save", "update", "delete"} /\ done.outcome # "pending") =>
    LET before == GetAllRecordings(done.before[1])
    IN \A i \in 1..Len(before) :
         (done.op = "save" \/ before[i].id # done.id) =>
           \E j \in 1..Len(Persisted) : Persisted[j] = before[i]

\* ---------------------------------------------------------------- enhancement in flight
\* C27: an enhancement that resolves does not overwrite what the user did since
\* it was started: a transcript that was cleared stays null until a capture is
\* transcribed or a recording is selected, and the enhanced text replaces the
\* current transcript only if that is still the transcript the enhancement was
\* started on.
C27_EnhanceKeepsLaterActions ==
  [][/\ (app.currentTranscription = None /\ app'.currentTranscription # None) =>
          app'.enhance = app.enhance
     /\ (app.enhance.pc = "enhancing" /\ app'.enhance.pc = "idle") =>
          app.currentTranscription = app.enhance.captured]_vars

\* ---------------------------------------------------------------- RecordingHistory
\* C28: RecordingHistory invokes onDeleteRecording(id), upon which the App shell
\* clears the transcript of the recording selected, only for a deletion the user
\* confirmed and with the recording of that id absent from the persisted list;
\* a storage delete that failed ends without the callback.
C28_CallbackOnlyWhenDeleted ==
  [][(hist.delete.pc = "loading" /\ hist'.delete.pc = "idle") =>
       /\ hist.delete.id # 0
       /\ ~HasId(Persisted, hist.delete.id)]_vars
====
